---- MODULE Spec2Model ----
(***************************************************************************)
(* A model of hapi's routing core (src/src/modules/core.rs): the upstream  *)
(* strategies (AlwaysFirst, RoundRobin) and the Context that owns the      *)
(* route list, the routing table and the route-id index.                   *)
(*                                                                         *)
(* Conventions.  Indexes are 0-based as in the source (Vec positions,      *)
(* next_index, the values of routing_table and route_index); At(s, i)      *)
(* reads the 0-based position i of a sequence.  Option<T> is a sequence of *)
(* length at most one: None is <<>> and Some(x) is <<x>>.                  *)
(***************************************************************************)
EXTENDS Integers, Sequences, FiniteSets, TLC

\* ---------------------------------------------------------------- bounds
\* Longest upstream list of a strategy drawn in StrategySpec.
MaxUpstreams == 3
\* Most next() calls recorded in `returned` in StrategySpec.
MaxCalls == 6

\* ------------------------------------------------------------ primitives
None == <<>>
Some(x) == <<x>>
At(s, i) == s[i + 1]
Range(s) == {s[i] : i \in 1..Len(s)}

\* UpstreamAddress values used by the model (FQDN strings).
Addresses == {"a:1", "b:2", "c:3"}

\* Upstream::build_from_fqdn: a fresh upstream is enabled.
build_from_fqdn(fqdn) == [address |-> fqdn, enabled |-> TRUE]

\* ------------------------------------------------------ UpstreamStrategy
\* A strategy is [kind, upstreams, next_index]; AlwaysFirst has no
\* next_index in the source and carries 0 here.
AlwaysFirst(upstreams) ==
    [kind |-> "AlwaysFirst", upstreams |-> upstreams, next_index |-> 0]
RoundRobin(upstreams, next_index) ==
    [kind |-> "RoundRobin", upstreams |-> upstreams, next_index |-> next_index]

\* Mutant of AlwaysFirstScan: the enabled flag is not tested.
AlwaysFirstScan_IgnoresEnabled(upstreams, i) ==
    IF i > Len(upstreams) THEN None ELSE Some(upstreams[i])

\* The AlwaysFirst arm of next(): the for loop over upstreams.iter(), from
\* 1-based position i on.
RECURSIVE AlwaysFirstScan(_, _)
AlwaysFirstScan(upstreams, i) ==
    IF i > Len(upstreams) THEN None
    ELSE IF upstreams[i].enabled THEN Some(upstreams[i])
    ELSE AlwaysFirstScan(upstreams, i + 1)

\* Mutant of RoundRobinLoop: the enabled flag is not tested.
RoundRobinLoop_IgnoresEnabled(upstreams, next_index, iter_counter) ==
    IF next_index < Len(upstreams)
    THEN [result |-> Some(At(upstreams, next_index)),
          next_index |-> (next_index + 1) % Len(upstreams)]
    ELSE [result |-> None, next_index |-> next_index]

\* Mutant of RoundRobinLoop: the hit does not advance next_index.
RoundRobinLoop_NoAdvance(upstreams, next_index, iter_counter) ==
    IF next_index < Len(upstreams) /\ At(upstreams, next_index).enabled
    THEN [result |-> Some(At(upstreams, next_index)), next_index |-> next_index]
    ELSE [result |-> None, next_index |-> next_index]

\* The RoundRobin arm of next(): the loop with iter_counter.  A disabled (or
\* out-of-range) position only increments iter_counter; next_index is
\* assigned on the hit alone.
RECURSIVE RoundRobinLoop(_, _, _)
RoundRobinLoop(upstreams, next_index, iter_counter) ==
    IF iter_counter = Len(upstreams)
    THEN [result |-> None, next_index |-> next_index]
    ELSE IF next_index < Len(upstreams) /\ At(upstreams, next_index).enabled
         THEN [result |-> Some(At(upstreams, next_index)),
               next_index |-> (next_index + 1) % Len(upstreams)]
         ELSE RoundRobinLoop(upstreams, next_index, iter_counter + 1)

\* UpstreamStrategy::next: the returned Option<&Upstream> and the strategy
\* after the call.
next(strategy) ==
    IF strategy.kind = "AlwaysFirst"
    THEN [result |-> AlwaysFirstScan(strategy.upstreams, 1),
          strategy |-> strategy]
    ELSE LET r == RoundRobinLoop(strategy.upstreams, strategy.next_index, 0)
         IN  [result |-> r.result,
              strategy |-> [strategy EXCEPT !.next_index = r.next_index]]

\* UpstreamStrategy::get_upstreams
get_upstreams(strategy) == strategy.upstreams

\* Mutant of SetEnabled: the flag of every upstream is set.
SetEnabled_EveryAddress(upstreams, upstream_address, flag) ==
    [i \in 1..Len(upstreams) |-> [upstreams[i] EXCEPT !.enabled = flag]]

\* The loop of enable_upstream and disable_upstream over the upstreams.
SetEnabled(upstreams, upstream_address, flag) ==
    [i \in 1..Len(upstreams) |->
        IF upstreams[i].address = upstream_address
        THEN [upstreams[i] EXCEPT !.enabled = flag]
        ELSE upstreams[i]]

\* UpstreamStrategy::enable_upstream
enable_upstream(strategy, upstream_address) ==
    [strategy EXCEPT !.upstreams = SetEnabled(@, upstream_address, TRUE)]

\* UpstreamStrategy::disable_upstream
disable_upstream(strategy, upstream_address) ==
    [strategy EXCEPT !.upstreams = SetEnabled(@, upstream_address, FALSE)]


\* ------------------------------------------------------------------ Route
\* Route::build
build(id, name, methods, paths, strategy) ==
    [id |-> id, name |-> name, methods |-> methods, paths |-> paths,
     strategy |-> strategy]

\* ---------------------------------------------------------------- Context
\* Result<T, E>
Ok(v) == [ok |-> TRUE, value |-> v, error |-> "-"]
Err(e) == [ok |-> FALSE, value |-> <<>>, error |-> e]

\* HashMap::new / HashMap::clear: the map with no keys.
EmptyMap == [k \in {} |-> None]

\* Mutant of Insert: a key that is present keeps its value.
Insert_KeepsExisting(map, key, value) ==
    [k \in (DOMAIN map) \cup {key} |-> IF k \in DOMAIN map THEN map[k] ELSE value]

\* HashMap::insert: a later insert of the same key replaces the value.
Insert(map, key, value) ==
    [k \in (DOMAIN map) \cup {key} |-> IF k = key THEN value ELSE map[k]]

\* Context::build_empty
build_empty ==
    [routes |-> <<>>, routing_table |-> EmptyMap, route_index |-> EmptyMap]

\* regexp_for: the stored string wrapped in ^ and $.
regexp_for(string) == "^" \o string \o "$"

\* Regex::new on the wrapped patterns of the model: "(" is an unclosed group,
\* which the regex crate rejects; every other pattern of the model compiles.
Regex_new(re) ==
    IF re = regexp_for("(") THEN Err("regex::Error") ELSE Ok(re)

\* The strings of the model that begin with "uri".
UriStrings == {"uri", "uri1", "uri2", "uri3", "uri4", "uri10"}

\* Regex::is_match for the compiled patterns of the model: "^uri.*$" (wrapped
\* once more) matches the strings that begin with "uri", "^.+$" the non-empty
\* strings, and a pattern without metacharacters matches itself alone.
is_match(regexp, text) ==
    CASE regexp = regexp_for("^uri.*$") -> text \in UriStrings
      [] regexp = regexp_for("^.+$") -> text # ""
      [] OTHER -> regexp = regexp_for(text)

\* The body of the for loop of match_route_index over the entries not yet
\* visited.  HashMap::iter yields them in an order the program does not
\* control, so the entry visited next is any of `left`; the result is the set
\* of results some order produces.  A pattern that does not compile returns
\* the error at once (the ? operator), a match breaks out of the loop.
RECURSIVE MatchLoop(_, _, _, _)
MatchLoop(routing_table, left, path, method) ==
    IF left = {} THEN {Ok(None)}
    ELSE UNION {
        LET path_regexp == Regex_new(regexp_for(key[1]))
            method_regexp == Regex_new(regexp_for(key[2]))
        IN  IF ~path_regexp.ok THEN {Err(path_regexp.error)}
            ELSE IF ~method_regexp.ok THEN {Err(method_regexp.error)}
            ELSE IF /\ is_match(path_regexp.value, path)
                    /\ is_match(method_regexp.value, method)
                 THEN {Ok(Some(routing_table[key]))}
                 ELSE MatchLoop(routing_table, left \ {key}, path, method)
        : key \in left }

\* Context::match_route_index: the possible Result<Option<usize>, regex::Error>.
match_route_index(self, path, method) ==
    MatchLoop(self.routing_table, DOMAIN self.routing_table, path, method)

\* Mutant of find_route_index: the exact key is not tried first.
find_route_index_RegexOnly(self, path, method) ==
    {Ok(IF r.ok THEN r.value ELSE None) :
        r \in match_route_index(self, path, method)}

\* Context::find_route_index: the possible Result<Option<usize>, CoreError>.
\* The exact key wins; otherwise match_route_index(..).ok()? turns both
\* Ok(None) and Err(_) into None.
find_route_index(self, path, method) ==
    LET key == <<path, method>>
    IN  IF key \in DOMAIN self.routing_table
        THEN {Ok(Some(self.routing_table[key]))}
        ELSE {Ok(IF r.ok THEN r.value ELSE None) :
                r \in match_route_index(self, path, method)}

\* Mutant of upstream_lookup: when the strategy of the route found yields
\* none, the first enabled upstream of any other route is returned.
upstream_lookup_FallsThrough(self, path, method) ==
    { IF found.value = None \/ found.value[1] >= Len(self.routes)
      THEN [self |-> self, ret |-> Ok(None), route_index |-> found.value]
      ELSE LET i == found.value[1]
               n == next(At(self.routes, i).strategy)
               others == {j \in 1..Len(self.routes) :
                            /\ j # i + 1
                            /\ AlwaysFirstScan(self.routes[j].strategy.upstreams, 1) # None}
           IN  IF n.result = None /\ others # {}
               THEN [self |-> self,
                     ret |-> Ok(AlwaysFirstScan(
                                self.routes[CHOOSE j \in others : TRUE].strategy.upstreams, 1)),
                     route_index |-> found.value]
               ELSE [self |-> [self EXCEPT !.routes[i + 1].strategy = n.strategy],
                     ret |-> Ok(n.result),
                     route_index |-> found.value]
      : found \in find_route_index(self, path, method) }

\* Context::upstream_lookup: the possible outcomes, each the Context after the
\* call, the returned Result<Option<&Upstream>, CoreError> and the route
\* index the lookup went through (None when it found no route).
upstream_lookup(self, path, method) ==
    { IF ~found.ok
      THEN [self |-> self, ret |-> Err(found.error), route_index |-> None]
      ELSE IF found.value = None \/ found.value[1] >= Len(self.routes)
      THEN [self |-> self, ret |-> Ok(None), route_index |-> found.value]
      ELSE LET i == found.value[1]
               n == next(At(self.routes, i).strategy)
           IN  [self |-> [self EXCEPT !.routes[i + 1].strategy = n.strategy],
                ret |-> Ok(n.result),
                route_index |-> found.value]
      : found \in find_route_index(self, path, method) }

\* Mutant of disable_upstream_for_all_routes: the loop stops after the first
\* route.
disable_upstream_for_all_routes_FirstRoute(self, upstream) ==
    [self |-> [self EXCEPT !.routes =
                  [i \in 1..Len(self.routes) |->
                      IF i = 1
                      THEN [self.routes[i] EXCEPT !.strategy = disable_upstream(@, upstream)]
                      ELSE self.routes[i]]],
     ret |-> Ok(<<>>)]

\* Context::disable_upstream_for_all_routes
disable_upstream_for_all_routes(self, upstream) ==
    [self |-> [self EXCEPT !.routes =
                  [i \in 1..Len(self.routes) |->
                      [self.routes[i] EXCEPT !.strategy = disable_upstream(@, upstream)]]],
     ret |-> Ok(<<>>)]

\* Context::enable_upstream_for_all_routes
enable_upstream_for_all_routes(self, upstream) ==
    [self |-> [self EXCEPT !.routes =
                  [i \in 1..Len(self.routes) |->
                      [self.routes[i] EXCEPT !.strategy = enable_upstream(@, upstream)]]],
     ret |-> Ok(<<>>)]

\* The inner for loop of rebuild_routing_table: the methods of one path, from
\* 1-based position j on.
RECURSIVE InsertMethods(_, _, _, _, _)
InsertMethods(table, path, methods, j, index) ==
    IF j > Len(methods) THEN table
    ELSE InsertMethods(Insert(table, <<path, methods[j]>>, index),
                       path, methods, j + 1, index)

\* The middle for loop of rebuild_routing_table: the paths of one route.
RECURSIVE InsertPaths(_, _, _, _)
InsertPaths(table, route, i, index) ==
    IF i > Len(route.paths) THEN table
    ELSE InsertPaths(InsertMethods(table, route.paths[i], route.methods, 1, index),
                     route, i + 1, index)

\* The outer for loop of rebuild_routing_table: routes.iter().enumerate().
RECURSIVE InsertRoutes(_, _, _)
InsertRoutes(table, routes, index) ==
    IF index >= Len(routes) THEN table
    ELSE InsertRoutes(InsertPaths(table, At(routes, index), 1, index),
                      routes, index + 1)

\* Mutant of rebuild_routing_table: the table is not cleared first.
rebuild_routing_table_NoClear(self) ==
    [self EXCEPT !.routing_table = InsertRoutes(self.routing_table, self.routes, 0)]

\* Context::rebuild_routing_table
rebuild_routing_table(self) ==
    [self EXCEPT !.routing_table = InsertRoutes(EmptyMap, self.routes, 0)]

\* The for loop of rebuild_route_index.
RECURSIVE InsertIds(_, _, _)
InsertIds(index_map, routes, idx) ==
    IF idx >= Len(routes) THEN index_map
    ELSE InsertIds(Insert(index_map, At(routes, idx).id, idx), routes, idx + 1)

\* Mutant of rebuild_route_index: the index is not cleared first.
rebuild_route_index_NoClear(self) ==
    [self EXCEPT !.route_index = InsertIds(self.route_index, self.routes, 0)]

\* Context::rebuild_route_index
rebuild_route_index(self) ==
    [self EXCEPT !.route_index = InsertIds(EmptyMap, self.routes, 0)]

\* Context::do_add_route
do_add_route(self, route) ==
    rebuild_route_index(rebuild_routing_table(
        [self EXCEPT !.routes = Append(@, route)]))

\* Vec::remove: the element at the 0-based position is taken out and the
\* later ones shift left.
VecRemove(vec, index) ==
    [i \in 1..(Len(vec) - 1) |-> IF i <= index THEN vec[i] ELSE vec[i + 1]]

\* Context::do_remove_route
do_remove_route(self, route_index) ==
    [self |-> rebuild_route_index(rebuild_routing_table(
                  [self EXCEPT !.routes = VecRemove(@, route_index)])),
     removed_route |-> At(self.routes, route_index)]

\* Mutant of add_route: the id is not looked up first.
add_route_Unchecked(self, route) ==
    [self |-> do_add_route(self, route), ret |-> Ok(<<>>)]

\* Context::add_route
add_route(self, route) ==
    IF route.id \notin DOMAIN self.route_index
    THEN [self |-> do_add_route(self, route), ret |-> Ok(<<>>)]
    ELSE [self |-> self, ret |-> Err("RouteAlreadyExists")]

\* Mutant of remove_route: an id that is not stored removes the first route
\* (the index defaults to 0).
remove_route_DefaultIndex(self, route_id) ==
    IF route_id \in DOMAIN self.route_index \/ self.routes # <<>>
    THEN LET index == IF route_id \in DOMAIN self.route_index
                      THEN self.route_index[route_id] ELSE 0
             r == do_remove_route(self, index)
         IN  [self |-> r.self, ret |-> Ok(r.removed_route)]
    ELSE [self |-> self, ret |-> Err("RouteNotExists")]

\* Context::remove_route
remove_route(self, route_id) ==
    IF route_id \in DOMAIN self.route_index
    THEN LET r == do_remove_route(self, self.route_index[route_id])
         IN  [self |-> r.self, ret |-> Ok(r.removed_route)]
    ELSE [self |-> self, ret |-> Err("RouteNotExists")]

\* Context::get_all_upstreams: the HashSet of the upstreams of all routes.
get_all_upstreams(self) ==
    Ok(UNION { Range(get_upstreams(self.routes[i].strategy))
               : i \in DOMAIN self.routes })

\* Context::get_all_routes
get_all_routes(self) == Ok(self.routes)

\* Context::get_route_by_id
get_route_by_id(self, route_id) ==
    IF route_id \in DOMAIN self.route_index
          /\ self.route_index[route_id] < Len(self.routes)
    THEN Ok(Some(At(self.routes, self.route_index[route_id])))
    ELSE Ok(None)

\* ------------------------------------------------- the routes of the model
\* After the sample routes of the tests of context: two routes that share
\* the pair ("uri2", "GET") and the upstream b:2, a route with a regular
\* expression for a path, and a second route with the id "id1" whose method
\* is a regular expression and one of whose paths does not compile.
Route1 ==
    build("id1", "route1", <<"GET">>, <<"uri1", "uri2">>,
          RoundRobin(<<build_from_fqdn("a:1"), build_from_fqdn("b:2")>>, 0))
Route2 ==
    build("id2", "route2", <<"GET">>, <<"uri2", "uri3">>,
          AlwaysFirst(<<build_from_fqdn("b:2"), build_from_fqdn("c:3")>>))
Route3 ==
    build("id3", "route3", <<"GET">>, <<"^uri.*$">>,
          RoundRobin(<<build_from_fqdn("c:3"), build_from_fqdn("a:1")>>, 0))
Route4 ==
    build("id1", "route4", <<"^.+$">>, <<"uri4", "(">>,
          AlwaysFirst(<<build_from_fqdn("c:3")>>))

Routes == {Route1, Route2, Route3, Route4}
RouteIds == {"id1", "id2", "id3"}
LookupPaths == {"uri1", "uri2", "uri4", "uri10"}
LookupMethods == {"GET", "POST"}

\* ------------------------------------------------ modules/probe.rs Poller
\* Largest error_count / success_count a Poller is built with.
MaxThreshold == 3
\* Largest number of check_and_* calls made on one Poller.
MaxTicks == 7

\* Poller::build
Poller_build(error_count, success_count) ==
    [error_count |-> error_count,
     success_count |-> success_count,
     current_error_count |-> 0,
     current_success_count |-> 0,
     upstream_enabled |-> TRUE]

\* Poller::check_and_enable_upstream: the Poller after the call and the
\* value returned.
check_and_enable_upstream(self) ==
    IF ~self.upstream_enabled
    THEN LET counted == [self EXCEPT !.current_success_count = @ + 1]
         IN  IF counted.current_success_count = counted.success_count
             THEN [self |-> [counted EXCEPT !.upstream_enabled = TRUE,
                                            !.current_success_count = 0],
                   ret |-> TRUE]
             ELSE [self |-> counted, ret |-> FALSE]
    ELSE [self |-> self, ret |-> FALSE]

\* Mutant of check_and_disable_upstream: current_error_count is not reset
\* when the upstream is disabled.
check_and_disable_upstream_NoReset(self) ==
    IF self.upstream_enabled
    THEN LET counted == [self EXCEPT !.current_error_count = @ + 1]
         IN  IF counted.current_error_count = counted.error_count
             THEN [self |-> [counted EXCEPT !.upstream_enabled = FALSE],
                   ret |-> TRUE]
             ELSE [self |-> counted, ret |-> FALSE]
    ELSE [self |-> self, ret |-> FALSE]

\* Poller::check_and_disable_upstream: the Poller after the call and the
\* value returned.
check_and_disable_upstream(self) ==
    IF self.upstream_enabled
    THEN LET counted == [self EXCEPT !.current_error_count = @ + 1]
         IN  IF counted.current_error_count = counted.error_count
             THEN [self |-> [counted EXCEPT !.upstream_enabled = FALSE,
                                            !.current_error_count = 0],
                   ret |-> TRUE]
             ELSE [self |-> counted, ret |-> FALSE]
    ELSE [self |-> self, ret |-> FALSE]

\* ------------------------------- infrastructure/probe_handler.rs
\* Ids of the routes carried by the events the probe handler receives.
ProbeRouteIds == {"id1", "id2"}
\* Largest number of upstreams of such a route.
MaxProbeUpstreams == 2

\* The route of a RouteWasAdded / RouteWasRemoved event, as far as the
\* handler reads it: route.upstreams, each with its address.
ProbeRoute(id, addresses) ==
    [id |-> id,
     upstreams |-> [i \in 1..Len(addresses) |-> build_from_fqdn(addresses[i])]]

\* The upstream address lists of those routes; an address may repeat.
ProbeUpstreamLists == UNION {[1..n -> Addresses] : n \in 0..MaxProbeUpstreams}

\* HashMap::remove
MapRemove(map, key) == [k \in (DOMAIN map) \ {key} |-> map[k]]

\* A ProbeController is [probes_status, upstream_counter] together with
\* tasks, the probe tasks spawned on the runtime and not aborted, each
\* [handle, address].
\* ProbeController::build
ProbeController_build ==
    [probes_status |-> EmptyMap, upstream_counter |-> EmptyMap, tasks |-> {}]

\* tokio::spawn: the JoinHandle of the new task, distinct from the handle
\* of every task still running.
SpawnHandle(tasks) ==
    CHOOSE h \in 1..(Cardinality(tasks) + 1) : \A t \in tasks : t.handle # h

\* ProbeController::do_add_probe
do_add_probe(self, to_add) ==
    LET handle == SpawnHandle(self.tasks)
        spawned == self.tasks \cup {[handle |-> handle, address |-> to_add]}
        aborted == IF to_add \in DOMAIN self.probes_status
                   THEN {t \in spawned : t.handle = self.probes_status[to_add]}
                   ELSE {}
    IN  [self EXCEPT !.tasks = spawned \ aborted,
                     !.probes_status = Insert(@, to_add, handle)]

\* Mutant of do_remove_probe: the handle is dropped without abort().
do_remove_probe_NoAbort(self, to_remove) ==
    IF to_remove \in DOMAIN self.probes_status
    THEN [self EXCEPT !.probes_status = MapRemove(@, to_remove)]
    ELSE self

\* ProbeController::do_remove_probe
do_remove_probe(self, to_remove) ==
    IF to_remove \in DOMAIN self.probes_status
    THEN [self EXCEPT !.tasks = {t \in @ : t.handle # self.probes_status[to_remove]},
                      !.probes_status = MapRemove(@, to_remove)]
    ELSE self

\* Mutant of add_probe: the count of an address already probed stays.
add_probe_NoIncrement(self, to_add) ==
    IF to_add \in DOMAIN self.upstream_counter
    THEN [self |-> self, ret |-> None]
    ELSE [self |-> [do_add_probe(self, to_add)
                        EXCEPT !.upstream_counter = Insert(@, to_add, 1)],
          ret |-> Some(to_add)]

\* ProbeController::add_probe
add_probe(self, to_add) ==
    IF to_add \in DOMAIN self.upstream_counter
    THEN [self |-> [self EXCEPT !.upstream_counter[to_add] = @ + 1],
          ret |-> None]
    ELSE [self |-> [do_add_probe(self, to_add)
                        EXCEPT !.upstream_counter = Insert(@, to_add, 1)],
          ret |-> Some(to_add)]

\* ProbeController::remove_probe
remove_probe(self, to_remove) ==
    IF to_remove \in DOMAIN self.upstream_counter
    THEN IF self.upstream_counter[to_remove] = 1
         THEN [self |-> [do_remove_probe(self, to_remove)
                            EXCEPT !.upstream_counter = MapRemove(@, to_remove)],
               ret |-> Some(to_remove)]
         ELSE [self |-> [self EXCEPT !.upstream_counter[to_remove] = @ - 1],
               ret |-> None]
    ELSE [self |-> self, ret |-> None]

\* handle_probes, RouteWasAdded arm: add_probe for upstreams[i..], in order.
RECURSIVE AddProbes(_, _, _)
AddProbes(self, upstreams, i) ==
    IF i > Len(upstreams)
    THEN self
    ELSE AddProbes(add_probe(self, upstreams[i].address).self, upstreams, i + 1)

\* handle_probes, RouteWasRemoved arm: remove_probe for upstreams[i..], in
\* order.
RECURSIVE RemoveProbes(_, _, _)
RemoveProbes(self, upstreams, i) ==
    IF i > Len(upstreams)
    THEN self
    ELSE RemoveProbes(remove_probe(self, upstreams[i].address).self, upstreams, i + 1)

\* ------------------------------------------- UpstreamAddress variants
\* The definitions above write an UpstreamAddress::FQDN as its string. Where
\* both variants occur an address is [variant, fqdn, ipv4], the field of the
\* other variant empty.
FQDN(fqdn) == [variant |-> "FQDN", fqdn |-> fqdn, ipv4 |-> <<>>]
IPv4(ipv4) == [variant |-> "IPv4", fqdn |-> "", ipv4 |-> ipv4]

\* UpstreamAddress::to_string
to_string(address) ==
    IF address.variant = "FQDN"
    THEN address.fqdn
    ELSE ToString(address.ipv4[1]) \o "." \o ToString(address.ipv4[2]) \o "."
            \o ToString(address.ipv4[3]) \o "." \o ToString(address.ipv4[4])
            \o ":" \o ToString(address.ipv4[5])

\* Upstream::build_from_fqdn / Upstream::build_from_ipv4, by variant.
build_from_address(address) == [address |-> address, enabled |-> TRUE]

\* ------------------------------------------------------ model/context.rs
\* The Context of model/context.rs is [routes, routing_table, upstreams,
\* route_index]; its Route keeps the upstreams beside the strategy. The
\* definitions carry the name of the module, model, in front.
model_build_empty ==
    [routes |-> <<>>, routing_table |-> EmptyMap, upstreams |-> {},
     route_index |-> EmptyMap]

\* Context::rebuild_routing_table of model/context.rs
model_rebuild_routing_table(self) ==
    [self EXCEPT !.routing_table = InsertRoutes(EmptyMap, self.routes, 0)]

\* Context::rebuild_upstreams
model_rebuild_upstreams(self) ==
    [self EXCEPT !.upstreams =
        UNION { { upstream.address : upstream \in Range(route.upstreams) }
                : route \in Range(self.routes) }]

\* Context::do_add_route
model_do_add_route(self, route) ==
    LET indexed == [self EXCEPT !.route_index =
                        Insert(@, route.id, Len(self.routes))]
        pushed == [indexed EXCEPT !.routes = Append(@, route)]
    IN  model_rebuild_upstreams(model_rebuild_routing_table(pushed))

\* Context::add_route of model/context.rs
model_add_route(self, route) ==
    IF route.id \notin DOMAIN self.route_index
    THEN [self |-> model_do_add_route(self, route), ret |-> Ok(<<>>)]
    ELSE [self |-> self, ret |-> Err("RouteAlreadyExists")]

\* What a call that panicked leaves in `ret`.
Panicked == Err("panicked")

\* Context::do_remove_route: the id leaves route_index, then Vec::remove
\* takes the element at the index the map held, and panics when the index
\* is not below the length; route_index is not rebuilt.
model_do_remove_route(self, route_id) ==
    LET index_to_remove == self.route_index[route_id]
        unindexed == [self EXCEPT !.route_index = MapRemove(@, route_id)]
    IN  IF index_to_remove >= Len(self.routes)
        THEN [self |-> unindexed, ret |-> Panicked]
        ELSE LET removed ==
                    [unindexed EXCEPT !.routes =
                        SubSeq(@, 1, index_to_remove)
                        \o SubSeq(@, index_to_remove + 2, Len(@))]
             IN  [self |-> model_rebuild_upstreams(model_rebuild_routing_table(removed)),
                  ret |-> Ok(<<>>)]

\* Context::remove_route of model/context.rs
model_remove_route(self, route_id) ==
    IF route_id \in DOMAIN self.route_index
    THEN model_do_remove_route(self, route_id)
    ELSE [self |-> self, ret |-> Err("RouteNotExists")]

\* Context::get_route_by_id of model/context.rs
model_get_route_by_id(self, route_id) ==
    IF route_id \notin DOMAIN self.route_index THEN None
    ELSE IF self.route_index[route_id] >= Len(self.routes) THEN None
    ELSE Some(At(self.routes, self.route_index[route_id]))

\* ------------------------------- infrastructure/serializable_model.rs
\* The (u8, u8, u8, u8, u16) values whose strings occur in the model.
Ipv4Tuples == {<<10, 0, 0, 1, 80>>}

\* Regex::is_match of IPV4_REGEX: the string is four octets and a port.
ipv4_is_match(u) == \E ipv4 \in Ipv4Tuples : to_string(IPv4(ipv4)) = u

\* upstream_str_to_tuple, for a string IPV4_REGEX matches
upstream_str_to_tuple(u) ==
    CHOOSE ipv4 \in Ipv4Tuples : to_string(IPv4(ipv4)) = u

\* impl From<UpstreamStrategy> for Strategy: the variant, without its fields
Strategy_from(upstream_strategy) == upstream_strategy.kind

\* impl From<core Route> for the serializable Route: the upstreams become
\* the strings of their addresses, the strategy its variant.
Serializable_from(route) ==
    [id |-> route.id, name |-> route.name, methods |-> route.methods,
     paths |-> route.paths,
     upstreams |-> [i \in DOMAIN route.strategy.upstreams |->
                      to_string(route.strategy.upstreams[i].address)],
     strategy |-> Strategy_from(route.strategy)]

\* impl From<serializable Route> for the core Route: each string becomes an
\* upstream built from an IPv4 tuple or from an FQDN, and so enabled; a
\* RoundRobin strategy starts at index 0.
Route_from(serializable_route) ==
    LET upstreams ==
            [i \in DOMAIN serializable_route.upstreams |->
               LET u == serializable_route.upstreams[i]
               IN  IF ipv4_is_match(u)
                   THEN build_from_address(IPv4(upstream_str_to_tuple(u)))
                   ELSE build_from_address(FQDN(u))]
    IN  build(serializable_route.id, serializable_route.name,
              serializable_route.methods, serializable_route.paths,
              IF serializable_route.strategy = "AlwaysFirst"
              THEN AlwaysFirst(upstreams)
              ELSE RoundRobin(upstreams, 0))

\* ------------------------------------------------- commands and events
\* tokio broadcast Sender::send: every subscriber's queue gets the message.
Send(queues, message) ==
    [subscriber \in DOMAIN queues |-> Append(queues[subscriber], message)]

\* Sender::send of an Option: nothing is sent for None.
SendMaybe(queues, maybe_message) ==
    IF maybe_message = None THEN queues ELSE Send(queues, maybe_message[1])

\* Command variants
Command_LookupUpstream(id, client, path, method) ==
    [kind |-> "LookupUpstream", id |-> id, client |-> client, path |-> path,
     method |-> method]
Command_EnableUpstream(id, upstream_address) ==
    [kind |-> "EnableUpstream", id |-> id, upstream_address |-> upstream_address]
Command_DisableUpstream(id, upstream_address) ==
    [kind |-> "DisableUpstream", id |-> id, upstream_address |-> upstream_address]
Command_AddRoute(id, route) == [kind |-> "AddRoute", id |-> id, route |-> route]
Command_RemoveRoute(id, route_id) == [kind |-> "RemoveRoute", id |-> id, route_id |-> route_id]
Command_LookupStats(id) == [kind |-> "LookupStats", id |-> id]
Command_LookupAllRoutes(id) == [kind |-> "LookupAllRoutes", id |-> id]
Command_LookupRoute(id, route_id) == [kind |-> "LookupRoute", id |-> id, route_id |-> route_id]
Command_LookupAllUpstreams(id) == [kind |-> "LookupAllUpstreams", id |-> id]

\* Event variants
Event_UpstreamWasFound(cmd_id, upstream_address, client, path, method) ==
    [kind |-> "UpstreamWasFound", cmd_id |-> cmd_id,
     upstream_address |-> upstream_address, client |-> client, path |-> path,
     method |-> method]
\* Mutant of Event_UpstreamWasNotFound: the id is not the command's.
Event_UpstreamWasNotFound_OtherId(cmd_id) ==
    [kind |-> "UpstreamWasNotFound", cmd_id |-> "init_event"]
Event_UpstreamWasNotFound(cmd_id) == [kind |-> "UpstreamWasNotFound", cmd_id |-> cmd_id]
Event_UpstreamWasEnabled(cmd_id, upstream_address) ==
    [kind |-> "UpstreamWasEnabled", cmd_id |-> cmd_id,
     upstream_address |-> upstream_address]
Event_UpstreamWasDisabled(cmd_id, upstream_address) ==
    [kind |-> "UpstreamWasDisabled", cmd_id |-> cmd_id,
     upstream_address |-> upstream_address]
Event_RouteWasAdded(cmd_id, route) == [kind |-> "RouteWasAdded", cmd_id |-> cmd_id, route |-> route]
Event_RouteWasNotAdded(cmd_id, route, error) ==
    [kind |-> "RouteWasNotAdded", cmd_id |-> cmd_id, route |-> route, error |-> error]
Event_RouteWasRemoved(cmd_id, route) ==
    [kind |-> "RouteWasRemoved", cmd_id |-> cmd_id, route |-> route]
Event_RouteWasNotRemoved(cmd_id, route_id, error) ==
    [kind |-> "RouteWasNotRemoved", cmd_id |-> cmd_id, route_id |-> route_id,
     error |-> error]
Event_StatsWereFound(cmd_id, stats) == [kind |-> "StatsWereFound", cmd_id |-> cmd_id, stats |-> stats]
Event_RoutesWereFound(cmd_id, routes) ==
    [kind |-> "RoutesWereFound", cmd_id |-> cmd_id, routes |-> routes]
Event_RouteWasFound(cmd_id, route) == [kind |-> "RouteWasFound", cmd_id |-> cmd_id, route |-> route]
Event_RouteWasNotFound(cmd_id, route_id) ==
    [kind |-> "RouteWasNotFound", cmd_id |-> cmd_id, route_id |-> route_id]
Event_UpstreamsWereFound(cmd_id, upstreams) ==
    [kind |-> "UpstreamsWereFound", cmd_id |-> cmd_id, upstreams |-> upstreams]

\* ------------------------------------ infrastructure/core_handler.rs
\* handle_core, the body of the loop for one command: the possible outcomes,
\* each the Context after it and the event sent, if any.
handle_core(context, command) ==
    CASE command.kind = "LookupUpstream" ->
            { [context |-> r.self,
               event |-> IF ~r.ret.ok
                         THEN None
                         ELSE IF r.ret.value # None
                         THEN Some(Event_UpstreamWasFound(command.id, r.ret.value[1].address,
                                       command.client, command.path, command.method))
                         ELSE Some(Event_UpstreamWasNotFound(command.id))]
              : r \in upstream_lookup(context, command.path, command.method) }
      [] command.kind = "AddRoute" ->
            LET r == add_route(context, command.route)
            IN  { [context |-> r.self,
                   event |-> IF r.ret.ok
                             THEN Some(Event_RouteWasAdded(command.id, command.route))
                             ELSE Some(Event_RouteWasNotAdded(command.id, command.route,
                                                        r.ret.error))] }
      [] command.kind = "RemoveRoute" ->
            LET r == remove_route(context, command.route_id)
            IN  { [context |-> r.self,
                   event |-> IF r.ret.ok
                             THEN Some(Event_RouteWasRemoved(command.id, r.ret.value))
                             ELSE Some(Event_RouteWasNotRemoved(command.id, command.route_id,
                                                          r.ret.error))] }
      [] command.kind = "EnableUpstream" ->
            LET r == enable_upstream_for_all_routes(context, command.upstream_address)
            IN  { [context |-> r.self,
                   event |-> IF r.ret.ok
                             THEN Some(Event_UpstreamWasEnabled(command.id,
                                                          command.upstream_address))
                             ELSE None] }
      [] command.kind = "DisableUpstream" ->
            LET r == disable_upstream_for_all_routes(context, command.upstream_address)
            IN  { [context |-> r.self,
                   event |-> IF r.ret.ok
                             THEN Some(Event_UpstreamWasDisabled(command.id,
                                                           command.upstream_address))
                             ELSE None] }
      [] command.kind = "LookupAllRoutes" ->
            LET r == get_all_routes(context)
            IN  { [context |-> context,
                   event |-> Some(Event_RoutesWereFound(command.id, r.value))] }
      [] command.kind = "LookupRoute" ->
            LET r == get_route_by_id(context, command.route_id)
            IN  { [context |-> context,
                   event |-> IF r.value # None
                             THEN Some(Event_RouteWasFound(command.id, r.value[1]))
                             ELSE Some(Event_RouteWasNotFound(command.id,
                                                              command.route_id))] }
      [] command.kind = "LookupAllUpstreams" ->
            LET r == get_all_upstreams(context)
            IN  { [context |-> context,
                   event |-> Some(Event_UpstreamsWereFound(command.id,
                                     [u \in r.value |-> u.address]))] }
      [] OTHER -> { [context |-> context, event |-> None] }

\* ------------------------- probe_handler.rs: the handler loop and tasks
\* The upstreams of the route of an event (route.upstreams).
route_upstreams(route) == get_upstreams(route.strategy)

\* Mutant of handle_probes: RouteWasNotAdded is handled as RouteWasAdded.
handle_probes_AddsRejected(self, event) ==
    CASE event.kind \in {"RouteWasAdded", "RouteWasNotAdded"} ->
            AddProbes(self, route_upstreams(event.route), 1)
      [] event.kind = "RouteWasRemoved" ->
            RemoveProbes(self, route_upstreams(event.route), 1)
      [] OTHER -> self

\* handle_probes, the body of the loop for one event: the ProbeController
\* after it.
handle_probes(self, event) ==
    CASE event.kind = "RouteWasAdded" ->
            AddProbes(self, route_upstreams(event.route), 1)
      [] event.kind = "RouteWasRemoved" ->
            RemoveProbes(self, route_upstreams(event.route), 1)
      [] OTHER -> self

\* The probes of the settings file, by upstream address string.
default_probes ==
    [upstream_address \in {"a:1", "10.0.0.1:80"} |->
        IF upstream_address = "a:1"
        THEN [error_count |-> 1, success_count |-> 1]
        ELSE [error_count |-> 2, success_count |-> 1]]

\* ProbeSettings::default
ProbeSettings_default == [error_count |-> 5, success_count |-> 5]

\* ProbeController::probe_settings_for
probe_settings_for(upstream_address) ==
    IF to_string(upstream_address) \in DOMAIN default_probes
    THEN default_probes[to_string(upstream_address)]
    ELSE ProbeSettings_default

\* Mutant of probe_upstream: a command goes out after every connection
\* attempt, whatever the Poller returned.
probe_upstream_EveryTick(to_add, poller, connected) ==
    LET upstream_address == to_string(to_add)
        call == IF connected
                THEN check_and_enable_upstream(poller)
                ELSE check_and_disable_upstream(poller)
    IN  [poller |-> call.self,
         command |-> IF connected
                     THEN Some(Command_EnableUpstream("uuid", FQDN(upstream_address)))
                     ELSE Some(Command_DisableUpstream("uuid", FQDN(upstream_address)))]

\* probe_upstream, one turn of the loop of the task spawned by do_add_probe
\* for to_add: the Poller after the connection attempt and the command
\* sent, if any. The task is given to_add.to_string() and wraps it as FQDN.
probe_upstream(to_add, poller, connected) ==
    LET upstream_address == to_string(to_add)
        call == IF connected
                THEN check_and_enable_upstream(poller)
                ELSE check_and_disable_upstream(poller)
    IN  [poller |-> call.self,
         command |-> IF ~call.ret
                     THEN None
                     ELSE IF connected
                     THEN Some(Command_EnableUpstream("uuid", FQDN(upstream_address)))
                     ELSE Some(Command_DisableUpstream("uuid", FQDN(upstream_address)))]

\* ------------------------------------------------------ modules/stats.rs
\* Stats::build: the counter map (client, method, path, upstream) => count.
Stats_build == EmptyMap

\* Mutant of count_request: the entry is set to one, whatever it held.
count_request_Overwrites(self, client, method, path, upstream) ==
    Insert(self, <<client, method, path, upstream>>, 1)

\* Stats::count_request
count_request(self, client, method, path, upstream) ==
    LET key == <<client, method, path, upstream>>
    IN  Insert(self, key, (IF key \in DOMAIN self THEN self[key] ELSE 0) + 1)

\* Stats::get_all: the rows of the map; the order of the Vec is the order of
\* iteration of the HashMap, so the rows are a set here.
get_all(self) ==
    { <<key[1], key[2], key[3], key[4], self[key]>> : key \in DOMAIN self }

\* --------------------------------------- infrastructure/stats_handler.rs
\* handle_stats, the body of the command loop: the event sent, if any.
handle_stats(stats, command) ==
    IF command.kind = "LookupStats"
    THEN Some(Event_StatsWereFound(command.id, get_all(stats)))
    ELSE None

\* Mutant of event_listener: a lookup that found nothing is counted too,
\* under the empty upstream.
event_listener_CountsMisses(stats, event) ==
    CASE event.kind = "UpstreamWasFound" ->
            count_request(stats, event.client, event.method, event.path,
                          to_string(event.upstream_address))
      [] event.kind = "UpstreamWasNotFound" ->
            count_request(stats, "", "", "", "")
      [] OTHER -> stats

\* event_listener, the body of the loop for one event: the Stats after it.
event_listener(stats, event) ==
    IF event.kind = "UpstreamWasFound"
    THEN count_request(stats, event.client, event.method, event.path,
                       to_string(event.upstream_address))
    ELSE stats

\* ------------------------------------------------- what an issuer returns
\* The value a call returned, with one field for each type that a call can
\* return: `ok` and `error` for the Result, `status` for an HTTP response
\* (0 when the call returns no response), and the value in the field of its
\* type, the other fields empty.
Returned ==
    [ok |-> TRUE, error |-> "-", status |-> 0, body |-> "", upstream |-> None,
     route |-> None, routes |-> <<>>, upstreams |-> EmptyMap, stats |-> {}]
Failed(error) == [Returned EXCEPT !.ok = FALSE, !.error = error]
\* HapiError::CoreError(error)
HapiError_CoreError(error) == "CoreError(" \o error \o ")"

\* The calls of CoreClient and StatsClient.
ClientCalls ==
    {"get_routes", "get_route_by_id", "search_upstream", "add_route",
     "remove_route", "get_upstreams", "get_all_stats"}

\* The arms of the match of a CoreClient or StatsClient call: what the call
\* breaks with on an event whose id is its own, None for the other arm.
client_break(call, event) ==
    CASE call = "get_routes" /\ event.kind = "RoutesWereFound" ->
            Some([Returned EXCEPT !.routes = event.routes])
      [] call = "get_route_by_id" /\ event.kind = "RouteWasFound" ->
            Some([Returned EXCEPT !.route = Some(event.route)])
      [] call = "get_route_by_id" /\ event.kind = "RouteWasNotFound" ->
            Some(Returned)
      [] call = "search_upstream" /\ event.kind = "UpstreamWasFound" ->
            Some([Returned EXCEPT !.upstream = Some(event.upstream_address)])
      [] call = "search_upstream" /\ event.kind = "UpstreamWasNotFound" ->
            Some(Returned)
      [] call = "add_route" /\ event.kind = "RouteWasAdded" ->
            Some(Returned)
      [] call = "add_route" /\ event.kind = "RouteWasNotAdded" ->
            Some(Failed(HapiError_CoreError(event.error)))
      [] call = "remove_route" /\ event.kind = "RouteWasRemoved" ->
            Some([Returned EXCEPT !.route = Some(event.route)])
      [] call = "remove_route" /\ event.kind = "RouteWasNotRemoved" ->
            Some(Failed(HapiError_CoreError(event.error)))
      [] call = "get_upstreams" /\ event.kind = "UpstreamsWereFound" ->
            Some([Returned EXCEPT !.upstreams = event.upstreams])
      [] call = "get_all_stats" /\ event.kind = "StatsWereFound" ->
            Some([Returned EXCEPT !.stats = event.stats])
      [] OTHER -> None

\* Mutant of client_receive: the id of the event is not compared.
client_receive_AnyId(call, cmd_uuid, event) == client_break(call, event)

\* The loop of a CoreClient or StatsClient call on one received event: what
\* the call breaks with, or None when the loop goes on.
client_receive(call, cmd_uuid, event) ==
    IF event.cmd_id = cmd_uuid THEN client_break(call, event) ELSE None

\* The loop of a CoreClient or StatsClient call when recv fails.
client_receive_error == Failed("MessageReceiveError")

\* `self.send_cmd.send(command)?` with no receiver left.
client_send_error == Failed("MessageSendError")

\* --------------------------------------- infrastructure/processor.rs
\* search_upstream, the body of the while loop on one received event: the
\* result variable after it and whether the loop breaks.
search_upstream_receive(cmd_uuid, event, search_result) ==
    CASE event.kind = "UpstreamWasFound" /\ event.cmd_id = cmd_uuid ->
            [search_result |-> Some(event.upstream_address), break |-> TRUE]
      [] event.kind = "UpstreamWasNotFound" /\ event.cmd_id = cmd_uuid ->
            [search_result |-> None, break |-> FALSE]
      [] OTHER -> [search_result |-> search_result, break |-> FALSE]

\* process_request after search_upstream returned: the request is forwarded
\* to the upstream found, whose answer or failure is the outcome, or it is
\* answered 404 with an empty body.
process_request(maybe_upstream, forwarded) ==
    IF maybe_upstream # None
    THEN IF forwarded
         THEN [Returned EXCEPT !.status = 200, !.body = "from upstream",
                               !.upstream = maybe_upstream]
         ELSE [Failed("HyperError") EXCEPT !.upstream = maybe_upstream]
    ELSE [Returned EXCEPT !.status = 404]

\* ------------------------------------------------ interfaces/api.rs
\* handle_api, POST /routes: a body that does not parse is answered 400;
\* for one that parses add_route is awaited, its result logged, and the
\* answer is 201.
post_routes_malformed == [Returned EXCEPT !.status = 400, !.body = "SerdeError"]
post_routes(add_route_result) == [Returned EXCEPT !.status = 201]

\* handle_api, DELETE /routes/{id}: the route that remove_route returned is
\* answered as JSON with 200 (the route is kept as it is here, the body
\* stands for its JSON text), its error with 400.
delete_route(remove_route_result) ==
    IF remove_route_result.ok
    THEN [Returned EXCEPT !.status = 200, !.body = "json",
                          !.route = remove_route_result.route]
    ELSE [Returned EXCEPT !.status = 400, !.body = remove_route_result.error]

\* handle_api, the last arm of the match: any other resource, method or
\* path is answered 404 with an empty body.
not_found == [Returned EXCEPT !.status = 404]

\* The CoreClient call a handler of the API awaits, and the answer it makes
\* of what the call returned.
ApiCall(entry) ==
    CASE entry = "post_routes" -> "add_route"
      [] entry = "delete_route" -> "remove_route"
      [] OTHER -> entry
ApiAnswer(entry, call_result) ==
    CASE entry = "post_routes" -> post_routes(call_result)
      [] entry = "delete_route" -> delete_route(call_result)
      [] OTHER -> call_result

VARIABLES
    routes,         \* Context.routes: Vec<Route>
    routing_table,  \* Context.routing_table: (path, method) => route index
    route_index,    \* Context.route_index: route id => route index
    result,         \* the last Context call: its name, argument, return value
                    \* and, for a lookup, the route index it went through
    live,           \* ids whose add_route returned Ok and whose remove_route
                    \* has not returned Ok since
    hist,           \* the calls made so far, kept while they follow the
                    \* steps of Scenario (empty otherwise)
    strategy,       \* StrategySpec: the UpstreamStrategy under test
    given,          \* StrategySpec: the strategy as it was before the calls
                    \* recorded in `returned`
    returned,       \* StrategySpec: results of the next() calls since the
                    \* last change of an enabled flag, oldest first
    poller,         \* PollerSpec: the Poller of one probe task
    ticks,          \* PollerSpec: the check_and_* calls made on poller so
                    \* far: which one, what it returned, the Poller after
    probes_status,  \* ProbeSpec: ProbeController.probes_status
    upstream_counter, \* ProbeSpec: ProbeController.upstream_counter
    tasks,          \* ProbeSpec: the probe tasks spawned and not aborted
    handled,        \* ProbeSpec: route id => route, for the routes whose
                    \* RouteWasAdded was handled and RouteWasRemoved was not
    cmd_queue,      \* command channel: subscriber => commands sent and not
                    \* yet received by it, oldest first
    evt_queue,      \* event channel: subscriber => events sent and not yet
                    \* received by it, oldest first
    probe_pollers,  \* HealthSpec: task handle => the Poller of the task
    counter,        \* RequestSpec: Stats.counter of the stats handler
    consumed,       \* RequestSpec: the events event_listener has received,
                    \* oldest first
    issuers,        \* RequestSpec: issuer => its call: the entry point, the
                    \* command and its id, where it stands, the events it
                    \* has received since it started, what it returned, and
                    \* the issuers that had returned when it started
    bus_open,       \* RequestSpec: the handler tasks run (they hold the
                    \* senders of events and the receivers of commands)
    ctx_upstreams   \* ModelSpec: Context.upstreams of model/context.rs

ctx_vars == <<routes, routing_table, route_index, result, live, hist>>
strategy_vars == <<strategy, given, returned>>
poller_vars == <<poller, ticks>>
probe_vars == <<probes_status, upstream_counter, tasks, handled>>
vars == <<routes, routing_table, route_index, result, live, hist,
          strategy, given, returned, poller, ticks,
          probes_status, upstream_counter, tasks, handled,
          cmd_queue, evt_queue, probe_pollers,
          counter, consumed, issuers, bus_open, ctx_upstreams>>
bus_vars == <<cmd_queue, evt_queue, probe_pollers>>
request_vars == <<counter, consumed, issuers, bus_open>>

\* The variables of the other specifications, at rest.
PollerIdle == poller = Poller_build(0, 0) /\ ticks = <<>>
ProbeIdle ==
    /\ probes_status = ProbeController_build.probes_status
    /\ upstream_counter = ProbeController_build.upstream_counter
    /\ tasks = ProbeController_build.tasks
    /\ handled = EmptyMap
BusIdle ==
    /\ cmd_queue = EmptyMap
    /\ evt_queue = EmptyMap
    /\ probe_pollers = EmptyMap
ModelIdle == ctx_upstreams = {}
RequestIdle ==
    /\ counter = Stats_build
    /\ consumed = <<>>
    /\ issuers = EmptyMap
    /\ bus_open = TRUE

\* The Context the variables hold, and the variables taking a Context.
Self == [routes |-> routes, routing_table |-> routing_table,
         route_index |-> route_index]
Becomes(self) ==
    /\ routes' = self.routes
    /\ routing_table' = self.routing_table
    /\ route_index' = self.route_index

\* The record of a call.
Call(op, arg, ret, index) ==
    [op |-> op, arg |-> arg, ret |-> ret, route_index |-> index]

\* ------------------------------------------------------------- scenario
\* The calls of the spec's scenarios 1 and 2 on a Context with one RoundRobin
\* route over two upstreams [a, b]: the route is added to the empty Context,
\* four lookups, disable(a), three lookups, enable(a), two lookups.
Scenario ==
    <<"add_route",
      "upstream_lookup", "upstream_lookup", "upstream_lookup", "upstream_lookup",
      "disable_upstream_for_all_routes",
      "upstream_lookup", "upstream_lookup", "upstream_lookup",
      "enable_upstream_for_all_routes",
      "upstream_lookup", "upstream_lookup">>

\* The call opens the scenario: a RoundRobin route over two upstreams with
\* different addresses was added to an empty Context (n routes after it).
Opens(call, n) ==
    /\ call.op = "add_route"
    /\ call.ret.ok
    /\ n = 1
    /\ call.arg.strategy.kind = "RoundRobin"
    /\ Len(call.arg.strategy.upstreams) = 2
    /\ call.arg.strategy.upstreams[1].address # call.arg.strategy.upstreams[2].address

\* The call is step k of the scenario opened by h[1]: a lookup asks for the
\* first path and method of the route, disable and enable name the address
\* of its first upstream.
Follows(call, k, h) ==
    /\ k > 1
    /\ call.op = Scenario[k]
    /\ IF call.op = "upstream_lookup"
       THEN call.arg = <<h[1].arg.paths[1], h[1].arg.methods[1]>>
       ELSE call.arg = h[1].arg.strategy.upstreams[1].address

Track(h, call, n) ==
    IF h # <<>> /\ Len(h) < Len(Scenario) /\ Follows(call, Len(h) + 1, h)
    THEN Append(h, call)
    ELSE IF Opens(call, n) THEN <<call>> ELSE <<>>

\* ------------------------------------------------------------------- Spec
Init ==
    /\ routes = build_empty.routes
    /\ routing_table = build_empty.routing_table
    /\ route_index = build_empty.route_index
    /\ result = Call("build_empty", <<>>, Ok(<<>>), None)
    /\ live = {}
    /\ hist = <<>>
    /\ strategy = AlwaysFirst(<<>>)
    /\ given = strategy
    /\ returned = <<>>
    /\ PollerIdle
    /\ ProbeIdle
    /\ BusIdle
    /\ RequestIdle
    /\ ModelIdle

\* context.add_route(route)
AddRoute ==
    \E route \in Routes :
        LET r == add_route(Self, route)
        IN  /\ Becomes(r.self)
            /\ result' = Call("add_route", route, r.ret, None)
            /\ live' = IF r.ret.ok THEN live \cup {route.id} ELSE live
            /\ hist' = Track(hist, result', Len(routes'))
            /\ UNCHANGED <<strategy_vars, poller_vars, probe_vars, bus_vars, request_vars, ctx_upstreams>>

\* context.remove_route(route_id)
RemoveRoute ==
    \E route_id \in RouteIds :
        LET r == remove_route(Self, route_id)
        IN  /\ Becomes(r.self)
            /\ result' = Call("remove_route", route_id, r.ret, None)
            /\ live' = IF r.ret.ok THEN live \ {route_id} ELSE live
            /\ hist' = Track(hist, result', Len(routes'))
            /\ UNCHANGED <<strategy_vars, poller_vars, probe_vars, bus_vars, request_vars, ctx_upstreams>>

\* context.upstream_lookup(path, method)
LookupUpstream ==
    \E path \in LookupPaths, method \in LookupMethods :
        \E r \in upstream_lookup(Self, path, method) :
            /\ Becomes(r.self)
            /\ result' = Call("upstream_lookup", <<path, method>>, r.ret, r.route_index)
            /\ hist' = Track(hist, result', Len(routes'))
            /\ UNCHANGED <<live, strategy_vars, poller_vars, probe_vars, bus_vars, request_vars,
                   ctx_upstreams>>

\* context.disable_upstream_for_all_routes(upstream)
DisableUpstream ==
    \E upstream \in Addresses :
        LET r == disable_upstream_for_all_routes(Self, upstream)
        IN  /\ Becomes(r.self)
            /\ result' = Call("disable_upstream_for_all_routes", upstream, r.ret, None)
            /\ hist' = Track(hist, result', Len(routes'))
            /\ UNCHANGED <<live, strategy_vars, poller_vars, probe_vars, bus_vars, request_vars,
                   ctx_upstreams>>

\* context.enable_upstream_for_all_routes(upstream)
EnableUpstream ==
    \E upstream \in Addresses :
        LET r == enable_upstream_for_all_routes(Self, upstream)
        IN  /\ Becomes(r.self)
            /\ result' = Call("enable_upstream_for_all_routes", upstream, r.ret, None)
            /\ hist' = Track(hist, result', Len(routes'))
            /\ UNCHANGED <<live, strategy_vars, poller_vars, probe_vars, bus_vars, request_vars,
                   ctx_upstreams>>

\* context.get_all_upstreams()
GetAllUpstreams ==
    /\ result' = Call("get_all_upstreams", <<>>, get_all_upstreams(Self), None)
    /\ hist' = Track(hist, result', Len(routes))
    /\ UNCHANGED <<routes, routing_table, route_index, live, strategy_vars,
                   poller_vars, probe_vars, bus_vars, request_vars, ctx_upstreams>>

\* context.add_route(route) immediately followed by
\* context.remove_route(route.id); the step records what remove_route
\* returned.
AddThenRemove ==
    \E route \in Routes :
        LET added == add_route(Self, route)
            removed == remove_route(added.self, route.id)
        IN  /\ Becomes(removed.self)
            /\ result' = Call("add_route, remove_route", route, removed.ret, None)
            /\ live' = IF removed.ret.ok THEN live \ {route.id} ELSE live
            /\ hist' = Track(hist, result', Len(routes'))
            /\ UNCHANGED <<strategy_vars, poller_vars, probe_vars, bus_vars, request_vars, ctx_upstreams>>

Next ==
    \/ AddRoute
    \/ RemoveRoute
    \/ LookupUpstream
    \/ DisableUpstream
    \/ EnableUpstream
    \/ GetAllUpstreams
    \/ AddThenRemove

Spec == Init /\ [][Next]_vars

\* ---------------------------------------------------------- StrategySpec
\* Upstream lists of length 0..MaxUpstreams over Addresses, any flags.
UpstreamLists ==
    UNION {[1..n -> [address : Addresses, enabled : BOOLEAN]] : n \in 0..MaxUpstreams}

StrategyInit ==
    /\ \E upstreams \in UpstreamLists :
          \/ strategy = AlwaysFirst(upstreams)
          \/ \E next_index \in 0..(IF Len(upstreams) = 0 THEN 0 ELSE Len(upstreams) - 1) :
                strategy = RoundRobin(upstreams, next_index)
    /\ given = strategy
    /\ returned = <<>>
    /\ routes = <<>>
    /\ routing_table = EmptyMap
    /\ route_index = EmptyMap
    /\ result = Call("build_empty", <<>>, Ok(<<>>), None)
    /\ live = {}
    /\ hist = <<>>
    /\ PollerIdle
    /\ ProbeIdle
    /\ BusIdle
    /\ RequestIdle
    /\ ModelIdle

\* strategy.next()
StrategyCallNext ==
    /\ Len(returned) < MaxCalls
    /\ strategy' = next(strategy).strategy
    /\ returned' = Append(returned, next(strategy).result)
    /\ UNCHANGED <<given, ctx_vars, poller_vars, probe_vars, bus_vars, request_vars,
                   ctx_upstreams>>

\* strategy.enable_upstream(a)
StrategyEnable ==
    \E a \in Addresses :
        /\ strategy' = enable_upstream(strategy, a)
        /\ given' = strategy'
        /\ returned' = <<>>
        /\ UNCHANGED <<ctx_vars, poller_vars, probe_vars, bus_vars, request_vars, ctx_upstreams>>

\* strategy.disable_upstream(a)
StrategyDisable ==
    \E a \in Addresses :
        /\ strategy' = disable_upstream(strategy, a)
        /\ given' = strategy'
        /\ returned' = <<>>
        /\ UNCHANGED <<ctx_vars, poller_vars, probe_vars, bus_vars, request_vars, ctx_upstreams>>

StrategyNext == StrategyCallNext \/ StrategyEnable \/ StrategyDisable

StrategySpec == StrategyInit /\ [][StrategyNext]_vars

\* The Context and strategy variables, at rest.
CtxIdle ==
    /\ routes = build_empty.routes
    /\ routing_table = build_empty.routing_table
    /\ route_index = build_empty.route_index
    /\ result = Call("build_empty", <<>>, Ok(<<>>), None)
    /\ live = {}
    /\ hist = <<>>
StrategyIdle ==
    /\ strategy = AlwaysFirst(<<>>)
    /\ given = strategy
    /\ returned = <<>>

\* --------------------------------------------------------- PollerSpec
\* One Poller, as probe_upstream builds it from the settings' error_count
\* and success_count (any u64, 0 included), and the calls probe_upstream
\* makes on it after each connection attempt.
PollerInit ==
    /\ \E error_count \in 0..MaxThreshold, success_count \in 0..MaxThreshold :
          poller = Poller_build(error_count, success_count)
    /\ ticks = <<>>
    /\ CtxIdle
    /\ StrategyIdle
    /\ ProbeIdle
    /\ BusIdle
    /\ RequestIdle
    /\ ModelIdle

\* The connection succeeded: poller.check_and_enable_upstream()
CheckAndEnable ==
    /\ Len(ticks) < MaxTicks
    /\ LET call == check_and_enable_upstream(poller)
       IN  /\ poller' = call.self
           /\ ticks' = Append(ticks, [kind |-> "enable", ret |-> call.ret,
                                      poller |-> call.self])
    /\ UNCHANGED <<ctx_vars, strategy_vars, probe_vars, bus_vars, request_vars, ctx_upstreams>>

\* The connection failed: poller.check_and_disable_upstream()
CheckAndDisable ==
    /\ Len(ticks) < MaxTicks
    /\ LET call == check_and_disable_upstream(poller)
       IN  /\ poller' = call.self
           /\ ticks' = Append(ticks, [kind |-> "disable", ret |-> call.ret,
                                      poller |-> call.self])
    /\ UNCHANGED <<ctx_vars, strategy_vars, probe_vars, bus_vars, request_vars, ctx_upstreams>>

PollerNext == CheckAndEnable \/ CheckAndDisable

PollerSpec == PollerInit /\ [][PollerNext]_vars

\* ---------------------------------------------------------- ProbeSpec
\* The ProbeController of handle_probes and the events it handles. The core
\* sends RouteWasAdded for a route whose id is not stored and RouteWasRemoved
\* with the route it removed, so an id is added when it is not in `handled`
\* and is removed with the upstreams it was added with.
Controller ==
    [probes_status |-> probes_status, upstream_counter |-> upstream_counter,
     tasks |-> tasks]

ControllerBecomes(self) ==
    /\ probes_status' = self.probes_status
    /\ upstream_counter' = self.upstream_counter
    /\ tasks' = self.tasks

ProbeInit ==
    /\ probes_status = ProbeController_build.probes_status
    /\ upstream_counter = ProbeController_build.upstream_counter
    /\ tasks = ProbeController_build.tasks
    /\ handled = EmptyMap
    /\ CtxIdle
    /\ StrategyIdle
    /\ PollerIdle
    /\ BusIdle
    /\ RequestIdle
    /\ ModelIdle

\* Event::RouteWasAdded { route }
HandleRouteWasAdded ==
    \E id \in ProbeRouteIds \ DOMAIN handled, addresses \in ProbeUpstreamLists :
        LET route == ProbeRoute(id, addresses)
        IN  /\ ControllerBecomes(AddProbes(Controller, route.upstreams, 1))
            /\ handled' = Insert(handled, id, route)
            /\ UNCHANGED <<ctx_vars, strategy_vars, poller_vars, bus_vars, request_vars, ctx_upstreams>>

\* Event::RouteWasRemoved { route }
HandleRouteWasRemoved ==
    \E id \in DOMAIN handled :
        LET route == handled[id]
        IN  /\ ControllerBecomes(RemoveProbes(Controller, route.upstreams, 1))
            /\ handled' = MapRemove(handled, id)
            /\ UNCHANGED <<ctx_vars, strategy_vars, poller_vars, bus_vars, request_vars, ctx_upstreams>>

\* Any other event: the `_ => {}` arm.
HandleOtherEvent == UNCHANGED vars

ProbeNext == HandleRouteWasAdded \/ HandleRouteWasRemoved \/ HandleOtherEvent

ProbeSpec == ProbeInit /\ [][ProbeNext]_vars

\* ---------------------------------------------------------- HealthSpec
\* The routing core (handle_core), the probe handler (handle_probes) and the
\* probe tasks it spawns, connected by the command and the event channel.
\* The core subscribes to commands, the probe handler to events.
\* Largest number of messages waiting in one queue.
MaxPending == 1

HealthFqdn == FQDN("a:1")
HealthIpv4 == IPv4(<<10, 0, 0, 1, 80>>)

\* The routes of the AddRoute commands: two share the id id1.
HealthRoute1 ==
    build("id1", "route1", <<"GET">>, <<"uri1">>,
          AlwaysFirst(<<build_from_address(HealthFqdn)>>))
HealthRoute2 ==
    build("id2", "route2", <<"GET">>, <<"uri2">>,
          RoundRobin(<<build_from_address(HealthFqdn),
                       build_from_address(HealthIpv4)>>, 0))
HealthRoute3 ==
    build("id1", "route3", <<"GET">>, <<"uri3">>,
          AlwaysFirst(<<build_from_address(HealthIpv4),
                        build_from_address(HealthIpv4)>>))
HealthRoutes == {HealthRoute1, HealthRoute2, HealthRoute3}
HealthRouteIds == {"id1", "id2"}

HealthInit ==
    /\ CtxIdle
    /\ StrategyIdle
    /\ PollerIdle
    /\ ProbeIdle
    /\ cmd_queue = [subscriber \in {"core"} |-> <<>>]
    /\ evt_queue = [subscriber \in {"probes"} |-> <<>>]
    /\ probe_pollers = EmptyMap
    /\ RequestIdle
    /\ ModelIdle

\* CoreClient::add_route, the send: an AddRoute command with a fresh id.
SendAddRoute ==
    \E route \in HealthRoutes :
        LET command == Command_AddRoute("uuid", route)
        IN  /\ Len(cmd_queue["core"]) < MaxPending
            /\ cmd_queue' = Send(cmd_queue, command)
            /\ result' = Call("send", command, Ok(<<>>), None)
            /\ UNCHANGED <<request_vars, routes, routing_table, route_index, live, hist,
                           strategy_vars, poller_vars, probe_vars,
                           evt_queue, probe_pollers, ctx_upstreams>>

\* CoreClient::remove_route, the send.
SendRemoveRoute ==
    \E route_id \in HealthRouteIds :
        LET command == Command_RemoveRoute("uuid", route_id)
        IN  /\ Len(cmd_queue["core"]) < MaxPending
            /\ cmd_queue' = Send(cmd_queue, command)
            /\ result' = Call("send", command, Ok(<<>>), None)
            /\ UNCHANGED <<request_vars, routes, routing_table, route_index, live, hist,
                           strategy_vars, poller_vars, probe_vars,
                           evt_queue, probe_pollers, ctx_upstreams>>

\* handle_core: the core receives the oldest command and sends its event.
CoreReceives ==
    /\ cmd_queue["core"] # <<>>
    /\ Len(evt_queue["probes"]) < MaxPending
    /\ LET command == Head(cmd_queue["core"])
       IN  \E out \in handle_core(Self, command) :
              /\ Becomes(out.context)
              /\ cmd_queue' = [cmd_queue EXCEPT !["core"] = Tail(@)]
              /\ evt_queue' = SendMaybe(evt_queue, out.event)
              /\ result' = Call("handle_core", command, [event |-> out.event], None)
    /\ UNCHANGED <<request_vars, live, hist, strategy_vars, poller_vars, probe_vars,
                   probe_pollers, ctx_upstreams>>

\* handle_probes: the probe handler receives the oldest event; a task it
\* spawns builds its Poller from the settings of its address. The step
\* records the addresses of the tasks spawned.
ProbesReceive ==
    /\ evt_queue["probes"] # <<>>
    /\ LET event == Head(evt_queue["probes"])
           after == handle_probes(Controller, event)
       IN  /\ ControllerBecomes(after)
           /\ evt_queue' = [evt_queue EXCEPT !["probes"] = Tail(@)]
           /\ probe_pollers' =
                 [handle \in {t.handle : t \in after.tasks} |->
                     IF handle \in DOMAIN probe_pollers
                     THEN probe_pollers[handle]
                     ELSE LET task == CHOOSE t \in after.tasks : t.handle = handle
                              settings == probe_settings_for(task.address)
                          IN  Poller_build(settings.error_count,
                                           settings.success_count)]
           /\ result' = Call("handle_probes", event,
                             [spawned |-> {t.address : t \in after.tasks \ tasks}],
                             None)
    /\ UNCHANGED <<request_vars, routes, routing_table, route_index, live, hist,
                   strategy_vars, poller_vars, handled, cmd_queue, ctx_upstreams>>

\* probe_upstream: a running probe task tries to connect to its upstream.
ProbeTurn ==
    \E task \in tasks, connected \in BOOLEAN :
        LET turn == probe_upstream(task.address, probe_pollers[task.handle],
                                   connected)
        IN  /\ turn.command = None \/ Len(cmd_queue["core"]) < MaxPending
            /\ probe_pollers' = [probe_pollers EXCEPT ![task.handle] = turn.poller]
            /\ cmd_queue' = SendMaybe(cmd_queue, turn.command)
            /\ result' = Call("probe_upstream", task.address,
                              [command |-> turn.command], None)
            /\ UNCHANGED <<request_vars, routes, routing_table, route_index, live, hist,
                           strategy_vars, poller_vars, probe_vars, evt_queue,
                   ctx_upstreams>>

HealthNext ==
    \/ SendAddRoute
    \/ SendRemoveRoute
    \/ CoreReceives
    \/ ProbesReceive
    \/ ProbeTurn

HealthSpec == HealthInit /\ [][HealthNext]_vars

\* --------------------------------------------------------------------------
\* TaskSpec: one probe task on its own. probe_upstream builds its Poller
\* from the settings it is given and then loops: sleep, connect, check, send.
\* The command channel has one subscriber that never receives, so its queue
\* is the list of the commands the task has sent.
TaskInit ==
    /\ \E error_count \in 0..MaxThreshold, success_count \in 0..MaxThreshold :
          poller = Poller_build(error_count, success_count)
    /\ ticks = <<>>
    /\ cmd_queue = [subscriber \in {"core"} |-> <<>>]
    /\ evt_queue = EmptyMap
    /\ probe_pollers = EmptyMap
    /\ CtxIdle
    /\ StrategyIdle
    /\ ProbeIdle
    /\ RequestIdle
    /\ ModelIdle

\* One turn of the loop of probe_upstream, the connection attempt having
\* succeeded or failed.
ProbeTick ==
    /\ Len(ticks) < MaxTicks
    /\ \E connected \in BOOLEAN :
          LET turn == probe_upstream(HealthFqdn, poller, connected)
          IN  /\ poller' = turn.poller
              /\ ticks' = Append(ticks,
                                 [kind |-> IF connected THEN "enable" ELSE "disable",
                                  ret |-> turn.command # None,
                                  poller |-> turn.poller])
              /\ cmd_queue' = SendMaybe(cmd_queue, turn.command)
    /\ UNCHANGED <<ctx_vars, strategy_vars, probe_vars, evt_queue,
                   probe_pollers, request_vars, ctx_upstreams>>

TaskNext == ProbeTick

TaskSpec == TaskInit /\ [][TaskNext]_vars

\* ----------------------------------------------------------- RequestSpec
\* The issuers of commands with the core handler, the stats handler and its
\* event_listener task. The handlers subscribe to commands, event_listener
\* and each issuer to events; an issuer makes one call, as a request of the
\* API or of the data plane builds its client for one call.
Issuers == {"r1", "r2"}

\* Uuid::new_v4().to_string(): ids of different calls differ.
Uuid_new_v4(issuer) == "uuid-" \o issuer

RequestClient == "10.1.1.1"
RequestPaths == {"uri1", "uri2"}

\* The calls an issuer can make, with the command each sends under the id
\* given; a POST /routes whose body does not parse sends none, and neither
\* do GET /upstreams and GET /stats, which handle_api has no arm for.
Requests(cmd_uuid) ==
    { [entry |-> entry,
       command |-> Some(Command_LookupUpstream(cmd_uuid, RequestClient, path, "GET"))]
      : entry \in {"search_upstream", "process_request"}, path \in RequestPaths }
    \cup { [entry |-> entry, command |-> Some(Command_AddRoute(cmd_uuid, route))]
           : entry \in {"add_route", "post_routes"},
             route \in {HealthRoute2, HealthRoute3} }
    \cup { [entry |-> entry,
            command |-> Some(Command_RemoveRoute(cmd_uuid, route_id))]
           : entry \in {"remove_route", "delete_route"},
             route_id \in HealthRouteIds }
    \cup { [entry |-> "get_route_by_id",
            command |-> Some(Command_LookupRoute(cmd_uuid, route_id))]
           : route_id \in HealthRouteIds }
    \cup { [entry |-> "get_routes", command |-> Some(Command_LookupAllRoutes(cmd_uuid))],
           [entry |-> "get_upstreams",
            command |-> Some(Command_LookupAllUpstreams(cmd_uuid))],
           [entry |-> "get_all_stats", command |-> Some(Command_LookupStats(cmd_uuid))],
           [entry |-> "post_routes", command |-> None],
           [entry |-> "GET /upstreams", command |-> None],
           [entry |-> "GET /stats", command |-> None] }

\* An issuer before its call.
IssuerIdle ==
    [entry |-> "-", command |-> None, cmd_uuid |-> "-", pc |-> "idle",
     sent |-> FALSE, seen |-> <<>>, ret |-> Returned, after |-> {}]

\* load_json_file_db with one route in the file: the Context holds the
\* route and its RouteWasAdded is sent to the subscribers of that time.
LoadedContext == add_route(build_empty, HealthRoute1).self
InitEvent == Event_RouteWasAdded("init_event", HealthRoute1)

RequestInit ==
    /\ routes = LoadedContext.routes
    /\ routing_table = LoadedContext.routing_table
    /\ route_index = LoadedContext.route_index
    /\ result = Call("build_empty", <<>>, Ok(<<>>), None)
    /\ live = {}
    /\ hist = <<>>
    /\ StrategyIdle
    /\ PollerIdle
    /\ ProbeIdle
    /\ probe_pollers = EmptyMap
    /\ cmd_queue = [subscriber \in {"core", "stats"} |-> <<>>]
    /\ evt_queue = [subscriber \in {"listener"} |-> <<InitEvent>>]
    /\ counter = Stats_build
    /\ consumed = <<>>
    /\ issuers = [issuer \in Issuers |-> IssuerIdle]
    /\ bus_open = TRUE
    /\ ModelIdle

\* The call of an issuer returns: its receiver is dropped with it.
IssuerReturns(issuer, ret, seen) ==
    /\ issuers' = [issuers EXCEPT ![issuer].pc = "returned",
                                  ![issuer].ret = ret,
                                  ![issuer].seen = seen]
    /\ evt_queue' = MapRemove(evt_queue, issuer)

\* A request arrives and is given its receiver of events.
IssuerSubscribes ==
    \E issuer \in Issuers :
        /\ issuers[issuer].pc = "idle"
        /\ issuers' = [issuers EXCEPT ![issuer].pc = "built"]
        /\ evt_queue' = Insert(evt_queue, issuer, <<>>)
        /\ UNCHANGED <<ctx_vars, strategy_vars, poller_vars, probe_vars,
                       cmd_queue, probe_pollers, counter, consumed, bus_open,
                   ctx_upstreams>>

\* The start of a call: the command is sent under a fresh id. With no
\* receiver of commands left the send fails: a CoreClient or StatsClient
\* call returns the error, search_upstream of the data plane logs it and
\* goes on to receive. A POST /routes whose body does not parse is answered
\* without a command.
IssuerSends ==
    \E issuer \in Issuers :
        \E request \in Requests(Uuid_new_v4(issuer)) :
            LET started == [issuers[issuer] EXCEPT
                               !.entry = request.entry,
                               !.command = request.command,
                               !.cmd_uuid = Uuid_new_v4(issuer),
                               !.pc = "waiting",
                               !.sent = bus_open /\ request.command # None,
                               !.after = {other \in Issuers :
                                             issuers[other].pc = "returned"}]
            IN  /\ issuers[issuer].pc = "built"
                /\ cmd_queue' = IF bus_open THEN SendMaybe(cmd_queue, request.command)
                                            ELSE cmd_queue
                /\ IF request.command = None
                   THEN /\ issuers' = [issuers EXCEPT ![issuer] =
                                [started EXCEPT
                                    !.pc = "returned",
                                    !.ret = IF request.entry = "post_routes"
                                            THEN post_routes_malformed
                                            ELSE not_found]]
                        /\ evt_queue' = MapRemove(evt_queue, issuer)
                   ELSE IF ~bus_open /\ request.entry # "process_request"
                   THEN /\ issuers' = [issuers EXCEPT ![issuer] =
                                [started EXCEPT
                                    !.pc = "returned",
                                    !.ret = ApiAnswer(request.entry,
                                                      client_send_error)]]
                        /\ evt_queue' = MapRemove(evt_queue, issuer)
                   ELSE /\ issuers' = [issuers EXCEPT ![issuer] = started]
                        /\ evt_queue' = evt_queue
                /\ UNCHANGED <<ctx_vars, strategy_vars, poller_vars, probe_vars,
                               probe_pollers, counter, consumed, bus_open, ctx_upstreams>>

\* recv of a waiting issuer gives it the oldest event of its queue.
IssuerReceives ==
    \E issuer \in Issuers, forwarded \in BOOLEAN :
        LET self == issuers[issuer]
            event == Head(evt_queue[issuer])
            seen == Append(self.seen, event)
            search == search_upstream_receive(self.cmd_uuid, event, None)
            answer == client_receive(ApiCall(self.entry), self.cmd_uuid, event)
        IN  /\ self.pc = "waiting"
            /\ evt_queue[issuer] # <<>>
            /\ IF self.entry = "process_request"
               THEN IF search.break
                    THEN IssuerReturns(issuer,
                                       process_request(search.search_result, forwarded),
                                       seen)
                    ELSE /\ forwarded
                         /\ issuers' = [issuers EXCEPT ![issuer].seen = seen]
                         /\ evt_queue' = [evt_queue EXCEPT ![issuer] = Tail(@)]
               ELSE /\ forwarded
                    /\ IF answer # None
                       THEN IssuerReturns(issuer, ApiAnswer(self.entry, answer[1]),
                                          seen)
                       ELSE /\ issuers' = [issuers EXCEPT ![issuer].seen = seen]
                            /\ evt_queue' = [evt_queue EXCEPT ![issuer] = Tail(@)]
            /\ UNCHANGED <<ctx_vars, strategy_vars, poller_vars, probe_vars,
                           cmd_queue, probe_pollers, counter, consumed, bus_open,
                   ctx_upstreams>>

\* recv of a waiting issuer fails: every sender of events is gone and its
\* queue is empty.
IssuerReceiveFails ==
    \E issuer \in Issuers :
        LET self == issuers[issuer]
        IN  /\ self.pc = "waiting"
            /\ evt_queue[issuer] = <<>>
            /\ ~bus_open
            /\ IssuerReturns(issuer,
                   IF self.entry = "process_request"
                   THEN process_request(None, FALSE)
                   ELSE ApiAnswer(self.entry, client_receive_error),
                   self.seen)
            /\ UNCHANGED <<ctx_vars, strategy_vars, poller_vars, probe_vars,
                           cmd_queue, probe_pollers, counter, consumed, bus_open,
                   ctx_upstreams>>

\* handle_core receives the oldest command and sends its event.
CoreHandles ==
    /\ bus_open
    /\ cmd_queue["core"] # <<>>
    /\ \E out \in handle_core(Self, Head(cmd_queue["core"])) :
          /\ Becomes(out.context)
          /\ evt_queue' = SendMaybe(evt_queue, out.event)
    /\ cmd_queue' = [cmd_queue EXCEPT !["core"] = Tail(@)]
    /\ UNCHANGED <<result, live, hist, strategy_vars, poller_vars, probe_vars,
                   probe_pollers, request_vars, ctx_upstreams>>

\* handle_stats receives the oldest command and sends its event.
StatsHandles ==
    /\ bus_open
    /\ cmd_queue["stats"] # <<>>
    /\ evt_queue' = SendMaybe(evt_queue, handle_stats(counter, Head(cmd_queue["stats"])))
    /\ cmd_queue' = [cmd_queue EXCEPT !["stats"] = Tail(@)]
    /\ UNCHANGED <<ctx_vars, strategy_vars, poller_vars, probe_vars,
                   probe_pollers, request_vars, ctx_upstreams>>

\* event_listener receives the oldest event.
ListenerReceives ==
    /\ evt_queue["listener"] # <<>>
    /\ counter' = event_listener(counter, Head(evt_queue["listener"]))
    /\ consumed' = Append(consumed, Head(evt_queue["listener"]))
    /\ evt_queue' = [evt_queue EXCEPT !["listener"] = Tail(@)]
    /\ UNCHANGED <<ctx_vars, strategy_vars, poller_vars, probe_vars,
                   cmd_queue, probe_pollers, issuers, bus_open, ctx_upstreams>>

\* The handler tasks end: the senders of events and the receivers of
\* commands are dropped.
BusCloses ==
    /\ bus_open
    /\ bus_open' = FALSE
    /\ UNCHANGED <<ctx_vars, strategy_vars, poller_vars, probe_vars,
                   bus_vars, counter, consumed, issuers, ctx_upstreams>>

RequestNext ==
    \/ IssuerSubscribes
    \/ IssuerSends
    \/ IssuerReceives
    \/ IssuerReceiveFails
    \/ CoreHandles
    \/ StatsHandles
    \/ ListenerReceives
    \/ BusCloses

RequestSpec == RequestInit /\ [][RequestNext]_vars

\* --------------------------------------------------------------------------
\* CoreSpec: the routing core on its own, started on an empty db.json and
\* sent every kind of command. Besides the core, the command channel has a
\* subscriber that never receives, and so has the event channel: their
\* queues are the commands sent and the events sent so far, oldest first.
MaxCommands == 3

CoreLookupPaths == {"uri2", "none"}
CoreAddresses == {HealthFqdn, HealthIpv4}

\* The commands a client, the API, a probe task or anyone else may send
\* with the id given.
CoreCommands(id) ==
    { Command_LookupUpstream(id, "client", path, "GET") : path \in CoreLookupPaths }
    \cup { Command_AddRoute(id, route) : route \in HealthRoutes }
    \cup { Command_RemoveRoute(id, route_id) : route_id \in HealthRouteIds }
    \cup { Command_EnableUpstream(id, address) : address \in CoreAddresses }
    \cup { Command_DisableUpstream(id, address) : address \in CoreAddresses }
    \cup { Command_LookupRoute(id, route_id) : route_id \in HealthRouteIds }
    \cup { Command_LookupAllRoutes(id), Command_LookupAllUpstreams(id),
           Command_LookupStats(id) }

CoreInit ==
    /\ CtxIdle
    /\ cmd_queue = [subscriber \in {"core", "observer"} |-> <<>>]
    /\ evt_queue = [subscriber \in {"observer"} |-> <<>>]
    /\ probe_pollers = EmptyMap
    /\ StrategyIdle
    /\ PollerIdle
    /\ ProbeIdle
    /\ RequestIdle
    /\ ModelIdle

\* A sender of the command channel sends a command under a fresh id.
CommandIsSent ==
    /\ Len(cmd_queue["observer"]) < MaxCommands
    /\ \E command \in CoreCommands(Uuid_new_v4(ToString(Len(cmd_queue["observer"]) + 1))) :
          cmd_queue' = Send(cmd_queue, command)
    /\ UNCHANGED <<ctx_vars, strategy_vars, poller_vars, probe_vars, evt_queue,
                   probe_pollers, request_vars, ctx_upstreams>>

CoreNext == CommandIsSent \/ CoreHandles

CoreSpec == CoreInit /\ [][CoreNext]_vars

\* --------------------------------------------------------------------------
\* ModelSpec: the Context of model/context.rs under add_route, remove_route
\* and get_route_by_id. A call that panicked ends the run.
ModelRoute(id, path, address) ==
    [id |-> id, name |-> id, methods |-> <<"GET">>, paths |-> <<path>>,
     upstreams |-> <<build_from_fqdn(address)>>, strategy |-> "AlwaysFirst"]
ModelRoutes ==
    { ModelRoute("id1", "uri1", "a:1"), ModelRoute("id2", "uri2", "b:2"),
      ModelRoute("id3", "uri3", "a:1"), ModelRoute("id1", "uri4", "c:3") }
ModelRouteIds == {"id1", "id2", "id3"}

ModelSelf == [routes |-> routes, routing_table |-> routing_table,
              upstreams |-> ctx_upstreams, route_index |-> route_index]

ModelBecomes(self) ==
    /\ Becomes(self)
    /\ ctx_upstreams' = self.upstreams

ModelInit ==
    /\ routes = model_build_empty.routes
    /\ routing_table = model_build_empty.routing_table
    /\ route_index = model_build_empty.route_index
    /\ ctx_upstreams = model_build_empty.upstreams
    /\ result = Call("build_empty", <<>>, Ok(<<>>), None)
    /\ live = {}
    /\ hist = <<>>
    /\ StrategyIdle
    /\ PollerIdle
    /\ ProbeIdle
    /\ BusIdle
    /\ RequestIdle

\* context.add_route(route)
ModelAddRoute ==
    /\ result.ret # Panicked
    /\ \E route \in ModelRoutes :
          LET call == model_add_route(ModelSelf, route)
          IN  /\ ModelBecomes(call.self)
              /\ result' = Call("add_route", route, call.ret, None)
    /\ UNCHANGED <<live, hist, strategy_vars, poller_vars, probe_vars, bus_vars,
                   request_vars>>

\* context.remove_route(route_id)
ModelRemoveRoute ==
    /\ result.ret # Panicked
    /\ \E route_id \in ModelRouteIds :
          LET call == model_remove_route(ModelSelf, route_id)
          IN  /\ ModelBecomes(call.self)
              /\ result' = Call("remove_route", route_id, call.ret, None)
    /\ UNCHANGED <<live, hist, strategy_vars, poller_vars, probe_vars, bus_vars,
                   request_vars>>

\* context.get_route_by_id(route_id)
ModelGetRouteById ==
    /\ result.ret # Panicked
    /\ \E route_id \in ModelRouteIds :
          result' = Call("get_route_by_id", route_id,
                         Ok(model_get_route_by_id(ModelSelf, route_id)), None)
    /\ UNCHANGED <<routes, routing_table, route_index, ctx_upstreams, live, hist,
                   strategy_vars, poller_vars, probe_vars, bus_vars, request_vars>>

ModelNext == ModelAddRoute \/ ModelRemoveRoute \/ ModelGetRouteById

ModelSpec == ModelInit /\ [][ModelNext]_vars

\* --------------------------------------------------------------------------
\* LagSpec: the routing core behind a command channel of finite capacity.
\* A subscriber with Capacity messages waiting loses the oldest one to the
\* next send and finds a receive error in front of what is left.
Capacity == 2

\* RecvError::Lagged, where it stands in the queue of the subscriber.
Lagged == [kind |-> "Lagged"]

IsMessage(item) == item # Lagged

\* Sender::send on a channel of Capacity slots.
SendLagging(queues, message) ==
    [subscriber \in DOMAIN queues |->
        LET waiting == SelectSeq(queues[subscriber], IsMessage)
        IN  IF Len(waiting) < Capacity
            THEN Append(queues[subscriber], message)
            ELSE <<Lagged>> \o Tail(waiting) \o <<message>>]

LagCommands ==
    { Command_AddRoute("uuid", route) : route \in HealthRoutes }
    \cup { Command_RemoveRoute("uuid", route_id) : route_id \in HealthRouteIds }
    \cup { Command_LookupStats("uuid") }

LagInit ==
    /\ CtxIdle
    /\ cmd_queue = [subscriber \in {"core"} |-> <<>>]
    /\ evt_queue = EmptyMap
    /\ probe_pollers = EmptyMap
    /\ StrategyIdle
    /\ PollerIdle
    /\ ProbeIdle
    /\ RequestIdle
    /\ ModelIdle

\* A sender of the command channel sends a command, the core busy or not.
LagCommandIsSent ==
    /\ \E command \in LagCommands :
          cmd_queue' = SendLagging(cmd_queue, command)
    /\ UNCHANGED <<ctx_vars, strategy_vars, poller_vars, probe_vars, evt_queue,
                   probe_pollers, request_vars, ctx_upstreams>>

\* recv_cmd.recv().await returned Ok(command): the body of the loop runs.
CoreTakes ==
    /\ "core" \in DOMAIN cmd_queue
    /\ cmd_queue["core"] # <<>>
    /\ Head(cmd_queue["core"]) # Lagged
    /\ CoreHandles

\* recv_cmd.recv().await returned Err(Lagged): `while let Ok` ends, and
\* handle_core returns, dropping its receiver.
CoreLags ==
    /\ "core" \in DOMAIN cmd_queue
    /\ cmd_queue["core"] # <<>>
    /\ Head(cmd_queue["core"]) = Lagged
    /\ cmd_queue' = MapRemove(cmd_queue, "core")
    /\ UNCHANGED <<ctx_vars, strategy_vars, poller_vars, probe_vars, evt_queue,
                   probe_pollers, request_vars, ctx_upstreams>>

LagNext == LagCommandIsSent \/ CoreTakes \/ CoreLags

LagSpec == LagInit /\ [][LagNext]_vars

\* ================================================================ claims
AnyEnabled(upstreams) == \E i \in 1..Len(upstreams) : upstreams[i].enabled
AllEnabled(upstreams) == \A i \in 1..Len(upstreams) : upstreams[i].enabled

\* The 0-based position of the first enabled upstream met when scanning
\* cyclically from position start (defined when some upstream is enabled).
FirstEnabledFrom(upstreams, start) ==
    LET n == Len(upstreams)
        k == CHOOSE k \in 0..(n - 1) :
                /\ At(upstreams, (start + k) % n).enabled
                /\ \A j \in 0..(k - 1) : ~At(upstreams, (start + j) % n).enabled
    IN  (start + k) % n

\* The 1-based position of the first enabled upstream in declaration order.
SmallestEnabled(upstreams) ==
    CHOOSE i \in 1..Len(upstreams) :
        /\ upstreams[i].enabled
        /\ \A j \in 1..(i - 1) : ~upstreams[j].enabled

\* C1 (as claimed): a RoundRobin next() over a list with at least one enabled
\* upstream returns the first enabled upstream met from next_index on and
\* sets next_index to (found_index + 1) mod len; it returns none only when
\* every upstream is disabled.
C1_RoundRobinFindsFirstEnabled ==
    (given.kind = "RoundRobin" /\ Len(returned) >= 1 /\ AnyEnabled(given.upstreams))
        => LET found == FirstEnabledFrom(given.upstreams, given.next_index)
           IN  /\ returned[1] = Some(At(given.upstreams, found))
               /\ (Len(returned) = 1
                     => strategy.next_index = (found + 1) % Len(given.upstreams))

\* C8: a RoundRobin strategy whose n upstreams are all enabled returns, on the
\* k-th successive next(), the upstream at position (next_index + k - 1) mod n
\* of the list: every n successive calls return each position once, in list
\* order cyclically, and the rotation repeats.
C8_RoundRobinRotation ==
    (given.kind = "RoundRobin" /\ AllEnabled(given.upstreams))
        => LET n == Len(given.upstreams)
           IN  /\ \A k \in 1..Len(returned) :
                     /\ n > 0 => returned[k] =
                            Some(At(given.upstreams, (given.next_index + k - 1) % n))
                     /\ (n > 0 /\ k > n) => returned[k] = returned[k - n]
               /\ n > 0 => strategy.next_index =
                            (given.next_index + Len(returned)) % n

C8_Witness ==
    /\ given.kind = "RoundRobin"
    /\ AllEnabled(given.upstreams)
    /\ Len(given.upstreams) = 3
    /\ given.next_index = 1
    /\ Cardinality({given.upstreams[i].address : i \in 1..3}) = 3
    /\ Len(returned) = 6

\* C10: an AlwaysFirst next() returns the enabled upstream with the smallest
\* list position (none when there is none), and repeated calls with unchanged
\* enabled flags return the same upstream.
C10_AlwaysFirstSmallestEnabled ==
    given.kind = "AlwaysFirst"
        => \A k \in 1..Len(returned) :
              /\ AnyEnabled(given.upstreams)
                    => returned[k] = Some(given.upstreams[SmallestEnabled(given.upstreams)])
              /\ returned[k] = returned[1]

C10_Witness ==
    /\ given.kind = "AlwaysFirst"
    /\ Len(given.upstreams) >= 2
    /\ ~given.upstreams[1].enabled
    /\ given.upstreams[2].enabled
    /\ given.upstreams[1].address # given.upstreams[2].address
    /\ Len(returned) >= 2
    /\ returned[2] = Some(given.upstreams[2])

\* ------------------------------------------------------- Context claims
Ids(rs) == {rs[i].id : i \in 1..Len(rs)}

\* The 0-based indexes of the routes that list the pair (p, m).
Listing(rs, p, m) ==
    {i \in 0..(Len(rs) - 1) :
        p \in Range(At(rs, i).paths) /\ m \in Range(At(rs, i).methods)}

AllPaths == UNION {Range(r.paths) : r \in Routes} \cup LookupPaths
AllMethods == UNION {Range(r.methods) : r \in Routes} \cup LookupMethods

Max(S) == CHOOSE x \in S : \A y \in S : y <= x

\* The step taken was the call op (each action records its call in result).
Did(op) == result'.op = op

\* C2: a disabled upstream is never returned.  (a) After
\* disable_upstream_for_all_routes(a) no route has an enabled upstream with
\* address a; (b) a flag that is false stays false in every step that is not
\* enable_upstream_for_all_routes of its address, as long as its route is
\* stored; (c) an upstream_lookup that returns an upstream returns one that
\* was enabled in the route the lookup went through.
C2_DisabledNeverReturned ==
    [][ /\ Did("disable_upstream_for_all_routes")
            => \A i \in 1..Len(routes') :
                 \A k \in 1..Len(routes'[i].strategy.upstreams) :
                    LET u == routes'[i].strategy.upstreams[k]
                    IN  u.address = result'.arg => ~u.enabled
        /\ \A i \in 1..Len(routes) : \A j \in 1..Len(routes') :
              routes[i].id = routes'[j].id
                => \A k \in 1..Len(routes[i].strategy.upstreams) :
                      LET u == routes[i].strategy.upstreams[k]
                      IN  (/\ ~u.enabled
                           /\ ~(/\ Did("enable_upstream_for_all_routes")
                                /\ result'.arg = u.address))
                            => /\ k <= Len(routes'[j].strategy.upstreams)
                               /\ routes'[j].strategy.upstreams[k] = u
        /\ (Did("upstream_lookup") /\ result'.ret.value # None)
            => /\ result'.route_index # None
               /\ LET ups == At(routes, result'.route_index[1]).strategy.upstreams
                  IN  /\ result'.ret.value[1].enabled
                      /\ \E k \in 1..Len(ups) : ups[k] = result'.ret.value[1]
                      /\ \A k \in 1..Len(ups) :
                            ~ups[k].enabled
                                => ups[k].address # result'.ret.value[1].address
      ]_vars

\* C2 witness: a lookup returned an upstream of a route whose first upstream
\* is disabled.
C2_Witness ==
    /\ result.op = "upstream_lookup"
    /\ result.ret.value # None
    /\ ~At(routes, result.route_index[1]).strategy.upstreams[1].enabled
    /\ result.ret.value[1].address
         # At(routes, result.route_index[1]).strategy.upstreams[1].address

\* C3: route_index is a bijection between the ids of the stored routes and
\* their positions: the ids are pairwise distinct, route_index[r.id] is the
\* position of r, and route_index has no other key.
C3_RouteIndexBijection ==
    /\ \A i, j \in 1..Len(routes) : routes[i].id = routes[j].id => i = j
    /\ DOMAIN route_index = Ids(routes)
    /\ \A i \in 1..Len(routes) : route_index[routes[i].id] = i - 1

\* C3 witness: the first of three routes has been removed and the two others
\* moved down one position.
C3_Witness ==
    /\ result.op = "remove_route"
    /\ result.ret.ok
    /\ Len(routes) = 2
    /\ result.ret.value.id = "id1"
    /\ routes[1].id = "id3"
    /\ routes[2].id = "id2"

\* C4 (as claimed): routing_table[(p, m)] = i if and only if routes[i] lists
\* the path p and the method m, also when two stored routes list the pair.
C4_RoutingTableIff ==
    \A p \in AllPaths, m \in AllMethods, i \in 0..(Len(routes) - 1) :
        (<<p, m>> \in DOMAIN routing_table /\ routing_table[<<p, m>>] = i)
            <=> i \in Listing(routes, p, m)

\* C4 (amended): the keys of routing_table are the pairs some stored route
\* lists, and routing_table[(p, m)] is the largest index of a route that
\* lists the pair; for a pair that one route alone lists this is the claimed
\* equivalence.
C4_RoutingTableLastListing ==
    /\ DOMAIN routing_table =
          {pm \in AllPaths \X AllMethods : Listing(routes, pm[1], pm[2]) # {}}
    /\ \A pm \in DOMAIN routing_table :
          routing_table[pm] = Max(Listing(routes, pm[1], pm[2]))

\* C4 witness: two stored routes list the same pair, after a removal.
C4_Witness ==
    /\ result.op = "remove_route"
    /\ result.ret.ok
    /\ \E p \in AllPaths, m \in AllMethods :
          Cardinality(Listing(routes, p, m)) = 2

\* C5: when every added route has been removed the route list, route_index
\* and routing_table are empty, and remove_route of an id that was added and
\* not yet removed succeeds, returning the route of that id.
C5_NetEmptyIsEmpty ==
    [][ /\ live' = {}
            => /\ routes' = <<>>
               /\ route_index' = EmptyMap
               /\ routing_table' = EmptyMap
        /\ (Did("remove_route") /\ result'.arg \in live)
            => /\ result'.ret.ok
               /\ result'.ret.value.id = result'.arg
               /\ Len(routes') = Len(routes) - 1
      ]_vars

\* C5 witness: the last of three added routes has just been removed, and it
\* was not the one added last.
C5_Witness ==
    /\ result.op = "remove_route"
    /\ result.ret.ok
    /\ result.ret.value.id = "id1"
    /\ result.ret.value.strategy.next_index = 1
    /\ live = {}
    /\ routes = <<>>

\* C6: add_route of a route whose id is stored returns RouteAlreadyExists and
\* leaves the route list (with every enabled flag and next_index),
\* route_index and routing_table unchanged.
C6_AddExistingFails ==
    [][ (Did("add_route") /\ result'.arg.id \in Ids(routes))
            => /\ ~result'.ret.ok
               /\ result'.ret.error = "RouteAlreadyExists"
               /\ UNCHANGED <<routes, route_index, routing_table>>
      ]_vars

\* C6 witness: a route different from the stored one of the same id was
\* refused while the stored one had a disabled upstream and next_index 1.
C6_Witness ==
    /\ result.op = "add_route"
    /\ ~result.ret.ok
    /\ \E i \in 1..Len(routes) :
          /\ routes[i].id = result.arg.id
          /\ routes[i].name # result.arg.name
          /\ routes[i].strategy.next_index = 1
          /\ ~routes[i].strategy.upstreams[1].enabled

\* C7: remove_route of an id that is not stored returns RouteNotExists and
\* leaves the route list, route_index and routing_table unchanged.
C7_RemoveMissingFails ==
    [][ (Did("remove_route") /\ result'.arg \notin Ids(routes))
            => /\ ~result'.ret.ok
               /\ result'.ret.error = "RouteNotExists"
               /\ UNCHANGED <<routes, route_index, routing_table>>
      ]_vars

\* C7 witness: a removal was refused while other routes were stored.
C7_Witness ==
    /\ result.op = "remove_route"
    /\ ~result.ret.ok
    /\ result.ret.error = "RouteNotExists"
    /\ Len(routes) = 2

\* C9 (as claimed): over one RoundRobin route [a, b], four lookups return
\* a, b, a, b; after disable(a) the next three return b, b, b; after
\* enable(a) the next two return a, b.
C9_DisableMidRotation ==
    \A k \in 2..Len(hist) :
        LET a == hist[1].arg.strategy.upstreams[1].address
            b == hist[1].arg.strategy.upstreams[2].address
        IN  /\ k \in {2, 4, 11}
                => /\ hist[k].ret.value # None
                   /\ hist[k].ret.value[1].address = a
            /\ k \in {3, 5, 7, 8, 9, 12}
                => /\ hist[k].ret.value # None
                   /\ hist[k].ret.value[1].address = b

\* ------------------------------------------------------- lookup claims
\* Both patterns of the entry compile.
Compiles(key) ==
    Regex_new(regexp_for(key[1])).ok /\ Regex_new(regexp_for(key[2])).ok

\* ^p$ matches the path and ^m$ matches the method, for the entry (p, m).
EntryMatches(key, path, method) ==
    /\ Compiles(key)
    /\ is_match(regexp_for(key[1]), path)
    /\ is_match(regexp_for(key[2]), method)

\* C11: an upstream_lookup that goes through a route (AlwaysFirst or
\* RoundRobin) whose upstreams are all disabled returns none, and leaves the
\* routes as they were.
C11_AllDisabledGivesNone ==
    [][ (/\ Did("upstream_lookup")
         /\ result'.route_index # None
         /\ ~AnyEnabled(At(routes, result'.route_index[1]).strategy.upstreams))
            => /\ result'.ret.ok
               /\ result'.ret.value = None
               /\ UNCHANGED routes
      ]_vars

\* C11 witness: a lookup went through a RoundRobin route with every upstream
\* disabled, next_index 1, while an AlwaysFirst route is all disabled too.
C11_Witness ==
    /\ result.op = "upstream_lookup"
    /\ result.route_index # None
    /\ LET r == At(routes, result.route_index[1])
       IN  /\ r.strategy.kind = "RoundRobin"
           /\ r.strategy.next_index = 1
           /\ ~AnyEnabled(r.strategy.upstreams)
    /\ \E j \in 1..Len(routes) :
          /\ routes[j].strategy.kind = "AlwaysFirst"
          /\ ~AnyEnabled(routes[j].strategy.upstreams)
    /\ result.ret.value = None

\* C12: when routing_table has the key (path, method), upstream_lookup goes
\* through routes[routing_table[(path, method)]] and returns the next() of
\* that route's strategy, whatever other entries match as regular
\* expressions.
C12_ExactKeyFirst ==
    [][ (Did("upstream_lookup") /\ result'.arg \in DOMAIN routing_table)
            => LET i == routing_table[result'.arg]
                   n == next(At(routes, i).strategy)
               IN  /\ result'.route_index = Some(i)
                   /\ result'.ret = Ok(n.result)
                   /\ routes' = [routes EXCEPT ![i + 1].strategy = n.strategy]
      ]_vars

\* C12 witness: the exact key was used although an entry of another route
\* matches the path and the method as regular expressions.
C12_Witness ==
    /\ result.op = "upstream_lookup"
    /\ result.arg \in DOMAIN routing_table
    /\ result.ret.value # None
    /\ \E key \in DOMAIN routing_table :
          /\ key # result.arg
          /\ EntryMatches(key, result.arg[1], result.arg[2])
          /\ routing_table[key] # routing_table[result.arg]

\* C13 (as claimed): without an exact key the lookup goes through a route
\* that owns an entry (p, m) with ^p$ matching the path and ^m$ the method,
\* and it finds no route if and only if no entry matches both.
C13_RegexFallback ==
    (result.op = "upstream_lookup" /\ result.arg \notin DOMAIN routing_table)
        => LET matching == {key \in DOMAIN routing_table :
                               EntryMatches(key, result.arg[1], result.arg[2])}
           IN  /\ (result.route_index = None) <=> (matching = {})
               /\ result.route_index # None
                    => \E key \in matching :
                          routing_table[key] = result.route_index[1]

C15_InvalidRegexIsError ==
    (/\ result.op = "upstream_lookup"
     /\ result.arg \notin DOMAIN routing_table
     /\ \E key \in DOMAIN routing_table : ~Compiles(key)
     /\ result.route_index = None)
        => /\ ~result.ret.ok
           /\ result.ret.error = "CannotCreateRegexp"

\* ------------------------------------------------------- Poller claims
\* The calls first..last of ticks were made and are all of one kind.
Run(kind, first, last) ==
    /\ 1 <= first
    /\ last <= Len(ticks)
    /\ \A k \in first..last : ticks[k].kind = kind

\* The Poller on which call k of ticks was made.
PollerBefore(k) ==
    IF k = 1
    THEN Poller_build(poller.error_count, poller.success_count)
    ELSE ticks[k - 1].poller

PositiveThresholds == poller.error_count > 0 /\ poller.success_count > 0

\* C16: with positive thresholds E and S, from a Poller that is Up as built
\* (or has just become Up), of n <= E consecutive check_and_disable_upstream
\* calls only the E-th returns true and leaves it Down; from a Poller that
\* has just become Down, of n <= S consecutive check_and_enable_upstream
\* calls only the S-th returns true and leaves it Up, the ones before leave
\* it Down.
C16_ThresholdFlips ==
    PositiveThresholds =>
        /\ \A j \in 1..Len(ticks), n \in 1..poller.error_count :
              (/\ j = 1 \/ (ticks[j - 1].kind = "enable" /\ ticks[j - 1].ret)
               /\ Run("disable", j, j + n - 1))
                  => /\ ticks[j + n - 1].ret = (n = poller.error_count)
                     /\ ticks[j + n - 1].poller.upstream_enabled
                            = (n # poller.error_count)
        /\ \A j \in 2..Len(ticks), n \in 1..poller.success_count :
              (/\ ticks[j - 1].kind = "disable" /\ ticks[j - 1].ret
               /\ Run("enable", j, j + n - 1))
                  => /\ ticks[j + n - 1].ret = (n = poller.success_count)
                     /\ ticks[j + n - 1].poller.upstream_enabled
                            = (n = poller.success_count)

\* C16 witness: thresholds 2 and 3; two failures took the Poller Down, three
\* successes took it Up again, and two more failures took it Down again.
C16_Witness ==
    /\ poller.error_count = 2
    /\ poller.success_count = 3
    /\ Len(ticks) = 7
    /\ Run("disable", 1, 2) /\ Run("enable", 3, 5) /\ Run("disable", 6, 7)
    /\ ticks[2].ret /\ ~ticks[4].ret /\ ticks[5].ret /\ ticks[7].ret
    /\ ~poller.upstream_enabled

\* C17 (as claimed): a success on an Up Poller leaves current_error_count at
\* 0, so a check_and_disable_upstream that returns true is the last of
\* error_count consecutive failures.
C17_SuccessResetsErrors ==
    PositiveThresholds =>
        \A k \in 1..Len(ticks) :
            /\ (ticks[k].kind = "enable" /\ PollerBefore(k).upstream_enabled)
                  => ticks[k].poller.current_error_count = 0
            /\ (ticks[k].kind = "disable" /\ ticks[k].ret)
                  => Run("disable", k - poller.error_count + 1, k)

\* C18 (as claimed): a check_and_enable_upstream returns true, the Poller
\* becoming Up, only as the last of success_count consecutive successes.
C18_UpOnlyAfterConsecutiveSuccesses ==
    PositiveThresholds =>
        \A k \in 1..Len(ticks) :
            (ticks[k].kind = "enable" /\ ticks[k].ret)
                => Run("enable", k - poller.success_count + 1, k)

\* -------------------------------------------------- probe handler claims
\* The number of times address a is listed by the upstreams of route.
Multiplicity(a, route) ==
    Cardinality({i \in 1..Len(route.upstreams) : route.upstreams[i].address = a})

\* The sum of Multiplicity(a, handled[id]) over the ids given.
RECURSIVE SumMultiplicity(_, _)
SumMultiplicity(a, ids) ==
    IF ids = {}
    THEN 0
    ELSE LET id == CHOOSE x \in ids : TRUE
         IN  Multiplicity(a, handled[id]) + SumMultiplicity(a, ids \ {id})

RefCount(a) == SumMultiplicity(a, DOMAIN handled)

\* C19: after any sequence of handled RouteWasAdded and RouteWasRemoved
\* events, upstream_counter[a] is the sum over the live routes of the number
\* of times the route lists a, and a is not a key when that sum is 0.
C19_CounterIsMultiplicitySum ==
    \A a \in Addresses :
        IF RefCount(a) = 0
        THEN a \notin DOMAIN upstream_counter
        ELSE a \in DOMAIN upstream_counter /\ upstream_counter[a] = RefCount(a)

\* C19 witness: a live route lists an address twice, another live route
\* lists it once, the counter of the address is 3.
C19_Witness ==
    \E a \in Addresses, id1, id2 \in DOMAIN handled :
        /\ Multiplicity(a, handled[id1]) = 2
        /\ Multiplicity(a, handled[id2]) = 1
        /\ a \in DOMAIN upstream_counter
        /\ upstream_counter[a] = 3

\* C20: between event handlings, a is a key of probes_status if and only if
\* it is a key of upstream_counter with a count of at least 1; the handle
\* kept for a is that of a running task probing a, and no other task probing
\* a is running.
C20_ProbeIffCounted ==
    /\ \A a \in Addresses :
          a \in DOMAIN probes_status
              <=> (a \in DOMAIN upstream_counter /\ upstream_counter[a] >= 1)
    /\ \A a \in DOMAIN upstream_counter : upstream_counter[a] >= 1
    /\ \A a \in Addresses :
          {t \in tasks : t.address = a}
              = IF a \in DOMAIN probes_status
                THEN {[handle |-> probes_status[a], address |-> a]}
                ELSE {}

\* C20 witness: two addresses are probed, each by one task; one of them is
\* counted twice and its task was spawned while the other task was running.
C20_Witness ==
    \E a \in Addresses :
        /\ a \in DOMAIN probes_status
        /\ probes_status[a] # 1
        /\ Cardinality(tasks) = 2
        /\ upstream_counter[a] = 2

\* ------------------------------------------------- HealthSpec claims
\* The step is the probe handler receiving the oldest event.
ProbesReceived ==
    /\ evt_queue["probes"] # <<>>
    /\ evt_queue'["probes"] = Tail(evt_queue["probes"])

\* The step is the core receiving the oldest command.
CoreReceived ==
    /\ cmd_queue["core"] # <<>>
    /\ cmd_queue'["core"] = Tail(cmd_queue["core"])
    /\ result'.op = "handle_core"

\* C21: the core answers an AddRoute with RouteWasAdded exactly when it
\* stored the route, and spawns nothing itself. Receiving RouteWasAdded the
\* probe handler aborts no task and spawns one task for each distinct
\* address of the route that has no count, none for an address that is
\* counted, none for any other address; receiving RouteWasNotAdded it
\* changes neither tasks, handles nor counts.
C21_SpawnPerNewAddress ==
    [][ /\ (CoreReceived /\ Head(cmd_queue["core"]).kind = "AddRoute")
              => LET route == Head(cmd_queue["core"]).route
                     accepted == route.id \notin DOMAIN route_index
                 IN  /\ UNCHANGED <<probes_status, upstream_counter, tasks>>
                     /\ result'.ret.event[1].kind
                            = IF accepted THEN "RouteWasAdded" ELSE "RouteWasNotAdded"
                     /\ accepted <=> routes' = Append(routes, route)
                     /\ ~accepted => routes' = routes
        /\ (ProbesReceived /\ Head(evt_queue["probes"]).kind = "RouteWasAdded")
              => LET listed == {u.address :
                                  u \in Range(route_upstreams(Head(evt_queue["probes"]).route))}
                 IN  /\ tasks \subseteq tasks'
                     /\ \A t \in tasks' \ tasks : t.address \in listed
                     /\ \A a \in listed :
                           Cardinality({t \in tasks' \ tasks : t.address = a})
                               = IF a \in DOMAIN upstream_counter THEN 0 ELSE 1
        /\ (ProbesReceived /\ Head(evt_queue["probes"]).kind = "RouteWasNotAdded")
              => UNCHANGED <<probes_status, upstream_counter, tasks>>
      ]_vars

\* C21 witness: the probe handler received RouteWasAdded for a route of two
\* addresses, one counted already and one not; it spawned a task for the
\* second only.
C21_Witness ==
    /\ result.op = "handle_probes"
    /\ result.arg.kind = "RouteWasAdded"
    /\ result.arg.route = HealthRoute2
    /\ result.ret.spawned = {HealthIpv4}
    /\ upstream_counter[HealthFqdn] = 2
    /\ Cardinality(tasks) = 2

\* C22 (as claimed): the command a probe task sends when its Poller reports
\* a flip carries the address the task was spawned for.
C22_CommandCarriesProbedAddress ==
    (result.op = "probe_upstream" /\ result.ret.command # None)
        => result.ret.command[1].upstream_address = result.arg

\* C23 (as claimed): when the Poller of the task probing a is Down and the
\* core has received every command sent, no stored route has an enabled
\* upstream with address a, so no lookup yields a.
C23_DownMeansDisabled ==
    \A task \in tasks :
        (/\ ~probe_pollers[task.handle].upstream_enabled
         /\ cmd_queue["core"] = <<>>)
            => \A i \in 1..Len(routes) :
                  \A u \in Range(routes[i].strategy.upstreams) :
                      u.address = task.address => ~u.enabled

\* -------------------------------------------------------------- stats
\* The key under which an UpstreamWasFound event is counted.
StatKey(event) ==
    <<event.client, event.method, event.path, to_string(event.upstream_address)>>

\* The UpstreamWasFound events event_listener has received so far.
FoundConsumed == {k \in DOMAIN consumed : consumed[k].kind = "UpstreamWasFound"}

\* C24: every UpstreamWasFound event the stats aggregator consumes adds one
\* to the counter of its key (client, method, path, address string), which
\* starts at one, and changes no other counter, and nothing lowers or
\* removes a counter: the counters are those of the keys of the events
\* consumed, and each equals the number of events consumed with its key.
C24_CounterIsTally ==
    /\ DOMAIN counter = {StatKey(consumed[k]) : k \in FoundConsumed}
    /\ \A key \in DOMAIN counter :
          counter[key] = Cardinality({k \in FoundConsumed : StatKey(consumed[k]) = key})

\* event_listener has consumed the RouteWasAdded of the load and two
\* UpstreamWasFound events of one key.
C24_Witness ==
    /\ \E key \in DOMAIN counter : counter[key] = 2
    /\ Len(consumed) >= 3

\* C25: the stats table changes only when event_listener consumes an
\* UpstreamWasFound event; consuming the UpstreamWasNotFound of a lookup
\* that missed, or any other event, and answering LookupStats leave it as
\* it was.
C25_OnlyFoundChangesStats ==
    [][counter' # counter
          => /\ Len(consumed') = Len(consumed) + 1
             /\ consumed'[Len(consumed')].kind = "UpstreamWasFound"]_vars

\* event_listener has consumed the UpstreamWasNotFound of a lookup that
\* missed after the UpstreamWasFound of one that was counted.
C25_Witness ==
    /\ Len(consumed) >= 2
    /\ consumed[Len(consumed)].kind = "UpstreamWasNotFound"
    /\ \E key \in DOMAIN counter : counter[key] = 1

\* C26: when a request of the data plane was resolved to an upstream (its
\* issuer received the correlated UpstreamWasFound), the stats returned by a
\* get_all_stats started afterwards hold the row of that request with a
\* count that includes it.
C26_ResolvedRequestIsCounted ==
    \A asking \in Issuers, resolved \in Issuers :
        ( /\ issuers[asking].entry = "get_all_stats"
          /\ issuers[asking].pc = "returned"
          /\ issuers[asking].ret.ok
          /\ resolved \in issuers[asking].after
          /\ issuers[resolved].entry = "process_request"
          /\ issuers[resolved].ret.upstream # None )
        => LET command == issuers[resolved].command[1]
           IN  \E row \in issuers[asking].ret.stats :
                  /\ row[1] = command.client
                  /\ row[2] = command.method
                  /\ row[3] = command.path
                  /\ row[4] = to_string(issuers[resolved].ret.upstream[1])
                  /\ row[5] >= 1

\* ------------------------------------------------------------- issuers
\* The kinds of event that answer a call.
Answers(call) ==
    CASE call = "get_routes" -> {"RoutesWereFound"}
      [] call = "get_route_by_id" -> {"RouteWasFound", "RouteWasNotFound"}
      [] call \in {"search_upstream", "process_request"} ->
            {"UpstreamWasFound", "UpstreamWasNotFound"}
      [] call \in {"add_route", "post_routes"} -> {"RouteWasAdded", "RouteWasNotAdded"}
      [] call \in {"remove_route", "delete_route"} ->
            {"RouteWasRemoved", "RouteWasNotRemoved"}
      [] call = "get_upstreams" -> {"UpstreamsWereFound"}
      [] call = "get_all_stats" -> {"StatsWereFound"}
      [] OTHER -> {}

\* The places, among the events an issuer has received, of the events that
\* carry the id of its command and answer its call.
Correlated(issuer) ==
    {k \in DOMAIN issuers[issuer].seen :
        /\ issuers[issuer].seen[k].cmd_id = issuers[issuer].cmd_uuid
        /\ issuers[issuer].seen[k].kind \in Answers(issuers[issuer].entry)}

\* C27: with issuers at work at the same time, a call of CoreClient or
\* StatsClient that returns a result returns the one of the first event it
\* received that carries the id of its own command and answers its
\* question, and returns on receiving it.
C27_ResultFromOwnFirstAnswer ==
    \A issuer \in Issuers :
        ( /\ issuers[issuer].entry \in ClientCalls
          /\ issuers[issuer].pc = "returned"
          /\ issuers[issuer].ret.error \notin {"MessageReceiveError", "MessageSendError"} )
        => /\ Correlated(issuer) = {Len(issuers[issuer].seen)}
           /\ Some(issuers[issuer].ret) =
                 client_break(issuers[issuer].entry,
                              issuers[issuer].seen[Len(issuers[issuer].seen)])

\* Both issuers called CoreClient::add_route; one of them received the
\* answer to the other before its own and returned on its own.
C27_Witness ==
    \E issuer \in Issuers, other \in Issuers :
        /\ issuers[issuer].entry = "add_route"
        /\ issuers[other].entry = "add_route"
        /\ issuers[issuer].pc = "returned"
        /\ Len(issuers[issuer].seen) >= 2
        /\ issuers[issuer].seen[1].cmd_id = issuers[other].cmd_uuid
        /\ issuers[issuer].seen[1].kind \in Answers("add_route")
        /\ Correlated(issuer) # {}

\* C28: an issuer whose command was sent and whose call returned without
\* having received the correlated event (the channel of events closed
\* first) returned the error MessageReceiveError, be it a call of CoreClient
\* or StatsClient or the search of the data plane.
C28_ClosedChannelFails ==
    \A issuer \in Issuers :
        ( /\ issuers[issuer].entry \in ClientCalls \cup {"process_request"}
          /\ issuers[issuer].sent
          /\ issuers[issuer].pc = "returned"
          /\ Correlated(issuer) = {} )
        => /\ ~issuers[issuer].ret.ok
           /\ issuers[issuer].ret.error = "MessageReceiveError"

\* C29: a request of the data plane that has received the correlated
\* UpstreamWasNotFound has stopped waiting and returned 404 with an empty
\* body, the bus being open.
C29_MissAnswers404 ==
    \A issuer \in Issuers :
        ( /\ issuers[issuer].entry = "process_request"
          /\ bus_open
          /\ \E k \in Correlated(issuer) :
                issuers[issuer].seen[k].kind = "UpstreamWasNotFound" )
        => /\ issuers[issuer].pc = "returned"
           /\ issuers[issuer].ret.status = 404
           /\ issuers[issuer].ret.body = ""

\* C30: POST /routes answers 201 only when the core emitted RouteWasAdded
\* for its command; a body that does not parse and a RouteWasNotAdded (the
\* id is taken) are answered 400. Stated of the answers given while the
\* handlers run.
C30_CreatedOnlyWhenAdded ==
    \A issuer \in Issuers :
        ( /\ issuers[issuer].entry = "post_routes"
          /\ issuers[issuer].pc = "returned"
          /\ bus_open )
        => /\ issuers[issuer].ret.status = 201
              => \E k \in Correlated(issuer) :
                    issuers[issuer].seen[k].kind = "RouteWasAdded"
           /\ ( \/ issuers[issuer].command = None
                \/ \E k \in Correlated(issuer) :
                      issuers[issuer].seen[k].kind = "RouteWasNotAdded" )
              => issuers[issuer].ret.status = 400

\* ----------------------------------------------------- management API
\* C31: DELETE /routes/{id} answers 200 with the removed route when the
\* core emitted RouteWasRemoved for its command and 404 when it emitted
\* RouteWasNotRemoved, no route having the id. Stated of the answers given
\* while the handlers run.
C31_DeleteAnswers ==
    \A issuer \in Issuers :
        ( /\ issuers[issuer].entry = "delete_route"
          /\ issuers[issuer].pc = "returned"
          /\ bus_open )
        => \A k \in Correlated(issuer) :
              LET event == issuers[issuer].seen[k]
              IN  /\ event.kind = "RouteWasRemoved"
                     => /\ issuers[issuer].ret.status = 200
                        /\ issuers[issuer].ret.route = Some(event.route)
                  /\ event.kind = "RouteWasNotRemoved"
                     => issuers[issuer].ret.status = 404

\* C32: GET /upstreams sends LookupAllUpstreams and GET /stats sends
\* LookupStats, and each is answered 200 with the list of the correlated
\* UpstreamsWereFound / StatsWereFound event.
C32_UpstreamsAndStatsAnswered ==
    \A issuer \in Issuers :
        ( /\ issuers[issuer].entry \in {"GET /upstreams", "GET /stats"}
          /\ issuers[issuer].pc = "returned"
          /\ bus_open )
        => /\ issuers[issuer].ret.status = 200
           /\ issuers[issuer].command # None
           /\ issuers[issuer].command[1].kind =
                 (IF issuers[issuer].entry = "GET /upstreams"
                  THEN "LookupAllUpstreams" ELSE "LookupStats")
           /\ Correlated(issuer) # {}

\* ----------------------------------------------------- Context, again
\* The addresses of the upstreams of the stored routes.
StoredAddresses(rs) ==
    UNION { {u.address : u \in Range(get_upstreams(rs[i].strategy))}
            : i \in DOMAIN rs }

\* C33: get_all_upstreams holds every address that a stored route refers to
\* exactly once and no other address, also when an address is enabled in
\* one route and disabled in another.
C33_EachAddressOnce ==
    result.op = "get_all_upstreams"
        => /\ {u.address : u \in result.ret.value} = StoredAddresses(routes)
           /\ \A a \in StoredAddresses(routes) :
                 Cardinality({u \in result.ret.value : u.address = a}) = 1

\* C34: on a Context that does not hold the id of r, add_route(r)
\* immediately followed by remove_route(r.id) returns r and leaves the route
\* list, route_index, routing_table and the upstreams as they were.
C34_AddRemoveRestores ==
    [][(Did("add_route, remove_route")
           /\ result'.arg.id \notin DOMAIN route_index)
          => /\ result'.ret = Ok(result'.arg)
             /\ routes' = routes
             /\ route_index' = route_index
             /\ routing_table' = routing_table
             /\ get_all_upstreams([routes |-> routes',
                                   routing_table |-> routing_table',
                                   route_index |-> route_index'])
                   = get_all_upstreams(Self)]_vars

\* The pair was applied to a Context of two routes, one with a disabled
\* upstream, and returned the route: the id of the route was not stored.
C34_Witness ==
    /\ result.op = "add_route, remove_route"
    /\ result.ret.ok
    /\ Len(routes) = 2
    /\ result.arg.id \notin DOMAIN route_index
    /\ \E i \in DOMAIN routes :
          \E u \in Range(get_upstreams(routes[i].strategy)) : ~u.enabled

\* The route is as it was but for the enabled flags of its upstreams of the
\* address a.
SameButFlagsOf(a, before, after) ==
    /\ after.id = before.id
    /\ after.name = before.name
    /\ after.methods = before.methods
    /\ after.paths = before.paths
    /\ after.strategy.kind = before.strategy.kind
    /\ after.strategy.next_index = before.strategy.next_index
    /\ Len(after.strategy.upstreams) = Len(before.strategy.upstreams)
    /\ \A k \in DOMAIN before.strategy.upstreams :
          /\ after.strategy.upstreams[k].address = before.strategy.upstreams[k].address
          /\ before.strategy.upstreams[k].address # a
                => after.strategy.upstreams[k].enabled
                      = before.strategy.upstreams[k].enabled

\* C40: enable_upstream_for_all_routes(a) and
\* disable_upstream_for_all_routes(a) change nothing but the enabled flags of
\* the upstreams of address a (nothing when no route has a): the routes and
\* their order, ids, names, methods, paths, next_index, route_index and
\* routing_table stay; and upstream_lookup changes nothing but the next_index
\* of the RoundRobin route it selected.
C40_FrameOfFlagsAndLookup ==
    [][/\ (Did("enable_upstream_for_all_routes")
              \/ Did("disable_upstream_for_all_routes"))
          => /\ route_index' = route_index
             /\ routing_table' = routing_table
             /\ Len(routes') = Len(routes)
             /\ \A i \in DOMAIN routes :
                   SameButFlagsOf(result'.arg, routes[i], routes'[i])
             /\ result'.arg \notin StoredAddresses(routes) => routes' = routes
       /\ Did("upstream_lookup")
          => /\ route_index' = route_index
             /\ routing_table' = routing_table
             /\ Len(routes') = Len(routes)
             /\ \A i \in DOMAIN routes :
                   \/ routes'[i] = routes[i]
                   \/ /\ result'.route_index = Some(i - 1)
                      /\ routes[i].strategy.kind = "RoundRobin"
                      /\ routes'[i] = [routes[i] EXCEPT !.strategy.next_index =
                                           routes'[i].strategy.next_index]]_vars

\* disable_upstream_for_all_routes(a) was called on a Context of two routes,
\* one of them with a and with an enabled upstream of another address, the
\* other RoundRobin with an advanced next_index.
C40_Witness ==
    /\ result.op = "disable_upstream_for_all_routes"
    /\ Len(routes) = 2
    /\ \E i \in DOMAIN routes :
          /\ \E u \in Range(routes[i].strategy.upstreams) : u.address = result.arg
          /\ \E u \in Range(routes[i].strategy.upstreams) :
                u.address # result.arg /\ u.enabled
    /\ \E i \in DOMAIN routes :
          routes[i].strategy.kind = "RoundRobin" /\ routes[i].strategy.next_index > 0

\* ------------------------------------------------------ probe task, again
\* C39: the commands one probe task sends alternate, starting with
\* DisableUpstream: a turn of the loop sends nothing or one command, and the
\* command is DisableUpstream when the task has sent nothing yet or sent
\* EnableUpstream last, EnableUpstream when it sent DisableUpstream last.
C39_CommandsAlternate ==
    [][LET sent == cmd_queue["core"]
           last == IF sent = <<>> THEN "EnableUpstream"
                   ELSE sent[Len(sent)].kind
       IN  \/ cmd_queue' = cmd_queue
           \/ \E command \in {cmd_queue'["core"][Len(cmd_queue'["core"])]} :
                 /\ cmd_queue'["core"] = Append(sent, command)
                 /\ command.kind = IF last = "EnableUpstream"
                                   THEN "DisableUpstream"
                                   ELSE "EnableUpstream"]_vars

\* The task has disabled, enabled and disabled again, with turns that sent
\* nothing in between.
C39_Witness ==
    /\ Len(cmd_queue["core"]) = 3
    /\ cmd_queue["core"][3].kind = "DisableUpstream"
    /\ Len(ticks) > 4

\* ------------------------------------------------------ routing core, again
\* The variants handle_core answers a command of the kind given with.
AnswerFamily(kind) ==
    CASE kind = "LookupUpstream" -> {"UpstreamWasFound", "UpstreamWasNotFound"}
      [] kind = "AddRoute" -> {"RouteWasAdded", "RouteWasNotAdded"}
      [] kind = "RemoveRoute" -> {"RouteWasRemoved", "RouteWasNotRemoved"}
      [] kind = "EnableUpstream" -> {"UpstreamWasEnabled"}
      [] kind = "DisableUpstream" -> {"UpstreamWasDisabled"}
      [] kind = "LookupRoute" -> {"RouteWasFound", "RouteWasNotFound"}
      [] kind = "LookupAllRoutes" -> {"RoutesWereFound"}
      [] kind = "LookupAllUpstreams" -> {"UpstreamsWereFound"}
      [] OTHER -> {}

\* The commands the core has taken from the channel, oldest first.
TakenByCore ==
    SubSeq(cmd_queue["observer"], 1,
           Len(cmd_queue["observer"]) - Len(cmd_queue["core"]))

IsCoreCommand(command) == command.kind # "LookupStats"

\* C37: the events the core has sent are, in order, one for each command it
\* has taken other than LookupStats: the k-th event has the id of the k-th
\* such command and a variant of its answer family; LookupStats gets none.
C37_OneEventPerCommandInOrder ==
    LET answered == SelectSeq(TakenByCore, IsCoreCommand)
        events == evt_queue["observer"]
    IN  /\ Len(events) = Len(answered)
        /\ \A k \in DOMAIN answered :
              /\ events[k].cmd_id = answered[k].id
              /\ events[k].kind \in AnswerFamily(answered[k].kind)

\* The core has taken three commands, a LookupStats between two others, and
\* has answered the two.
C37_Witness ==
    /\ Len(TakenByCore) = 3
    /\ TakenByCore[1].kind = "LookupUpstream"
    /\ TakenByCore[2].kind = "LookupStats"
    /\ TakenByCore[3].kind = "RemoveRoute"
    /\ Len(evt_queue["observer"]) = 2
    /\ evt_queue["observer"][2].kind = "RouteWasNotRemoved"

\* --------------------------------------------------- serializable model
\* C35: every route of the Context is what its serializable form converts
\* back to.
C35_RouteRoundTrips ==
    \A i \in DOMAIN routes :
        Route_from(Serializable_from(routes[i])) = routes[i]

\* ----------------------------------------------------- model/context.rs
\* C36: in the Context of model/context.rs, get_route_by_id of the id of a
\* route in the list returns that route, and remove_route of the id of a
\* route in the list returns Ok and takes exactly that route out of the
\* list, the others keeping their order.
C36_IndexesCurrentAfterRemove ==
    [][\A i \in DOMAIN routes :
          /\ (Did("get_route_by_id") /\ result'.arg = routes[i].id)
                => result'.ret = Ok(Some(routes[i]))
          /\ (Did("remove_route") /\ result'.arg = routes[i].id)
                => /\ result'.ret = Ok(<<>>)
                   /\ routes' = SubSeq(routes, 1, i - 1)
                                  \o SubSeq(routes, i + 1, Len(routes))
      ]_vars

\* --------------------------------------------------------- loops and lag
\* C38: while the command channel is open the loop of the routing core
\* runs: the core is a subscriber of the channel, whatever it has missed.
C38_LoopOutlivesLag ==
    bus_open => "core" \in DOMAIN cmd_queue

====
